---- MODULE Spec2Model ----
(***************************************************************************)
(* The instruction-level Executor of the WebAssembly VM                    *)
(* (crates/vm/src/executor.rs): program counter, the single stack of       *)
(* operands / labels / activations, and execute_step with the interceptor  *)
(* hooks, calls of defined and host functions, linear memory and tables.   *)
(* Every parameter and result of a function is i32.  Indices (instruction  *)
(* index, function index, exec address, module index, byte address) are    *)
(* 0-based as in the code.                                                 *)
(***************************************************************************)
EXTENDS Integers, Sequences, FiniteSets, TLC

VARIABLES
    store,   \* the Store the executor borrows: function instances, modules,
             \* memories, tables, element and data segments
    config,  \* the Config the executor borrows: features.memory64
    pc,      \* Executor.pc : [module, func (exec address), inst (index)]
    stack,   \* Executor.stack : sequence of StackValue, top is the last element
    result,  \* what the last execute_step call returned: "None" before the
             \* first call, a Signal, or the name of the Trap of an Err
    last,    \* observation of the last call: the executor before it, the
             \* pre-hook's answer, the instruction and its own result
    returned, \* observation of the last pop_result call: the return types it
             \* was given, the stack before it and what it returned
    calls,   \* history of the calls of defined functions: `active` holds, for
             \* every called function not yet left, the executor at its
             \* invocation; `finished` the entry of the function the last
             \* step left, if any
    wast,    \* the wast harness: the WastContext (module_index_by_name,
             \* current), the modules and module names of its store, and the
             \* outcome of the last directive
    thread,  \* the debugger running a `thread step-in` / `step-over` command:
             \* where the command is, the frame depth and line info of the
             \* debuggee's pc, and what the command has done so far
    server,  \* the debugger server: the holder of CONNECTION_LOCK and, for
             \* every upgraded connection, where its establish_connection
             \* call and its debugger thread are, the request channel, and
             \* the requests taken and responses sent
    proxy    \* one debugger thread handling requests: the modules in the
             \* store of its debugger, whether its handler is stopped at a
             \* breakpoint, and the request handled last with its response

\* the executor with what it borrows, and the programs around it
executor == <<store, config, pc, stack, result, last, returned, calls>>

around == << wast, thread, server, proxy >>

vars == << executor, around >>

\* Largest argument value handed to the entry function.
MaxArg == 2

\* Width of a byte of linear memory (the model's u8).
ByteBits == 2

\* Width of an operand value (the model's i32), four bytes; usize and u64 are
\* twice as wide, as u64 is to i32, so that `as usize` sign-extends.
ValueBits == 4 * ByteBits

MinI32 == -(2 ^ (ValueBits - 1))

UsizeBits == 2 * ValueBits

Signals == {"Next", "Breakpoint", "End"}

Traps == {"Unreachable", "Stack", "NoMoreInstruction", "Interceptor",
          "UndefinedFunc", "DirectCallTypeMismatch", "IndirectCallTypeMismatch",
          "UnexpectedStackValueType", "UnexpectedNonRefValueType",
          "ElementTypeMismatch", "HostFunctionError", "MemoryAddrOverflow",
          "Memory", "Table", "Element", "Data"}

IsTrap(r) == r \in Traps

ArgValues == {MinI32} \cup ((-1) .. MaxArg)

----------------------------------------------------------------------------
(* Instructions (InstructionKind) and block types (TypeOrFuncType).        *)

EmptyBlockType == [k |-> "Empty", id |-> 0]
ValBlockType == [k |-> "Val", id |-> 0]
FuncBlockType(id) == [k |-> "Func", id |-> id]

Unreachable == [op |-> "Unreachable"]
Nop == [op |-> "Nop"]
Block(ty) == [op |-> "Block", ty |-> ty]
Loop(ty) == [op |-> "Loop", ty |-> ty]
If(ty) == [op |-> "If", ty |-> ty]
Else == [op |-> "Else"]
End == [op |-> "End"]
Br(n) == [op |-> "Br", relative_depth |-> n]
BrIf(n) == [op |-> "BrIf", relative_depth |-> n]
BrTable(t, d) == [op |-> "BrTable", table |-> t, default |-> d]
Return == [op |-> "Return"]
Call(f) == [op |-> "Call", function_index |-> f]
Drop == [op |-> "Drop"]
I32Const(v) == [op |-> "I32Const", value |-> v]
LocalGet(i) == [op |-> "LocalGet", local_index |-> i]
I64Const(v) == [op |-> "I64Const", value |-> v]
CallIndirect(index, table_index) ==
    [op |-> "CallIndirect", index |-> index, table_index |-> table_index]
RefNull == [op |-> "RefNull"]
RefFunc(f) == [op |-> "RefFunc", function_index |-> f]
I32Load(offset) == [op |-> "I32Load", offset |-> offset]
I32Store(offset) == [op |-> "I32Store", offset |-> offset]
I32Store8(offset) == [op |-> "I32Store8", offset |-> offset]
MemoryCopy(src, dst) == [op |-> "MemoryCopy", src |-> src, dst |-> dst]
MemoryFill(mem) == [op |-> "MemoryFill", mem |-> mem]
MemoryInit(segment, mem) == [op |-> "MemoryInit", segment |-> segment, mem |-> mem]
TableFill(table) == [op |-> "TableFill", table |-> table]
TableCopy(dst_table, src_table) ==
    [op |-> "TableCopy", dst_table |-> dst_table, src_table |-> src_table]
TableInit(segment, table) == [op |-> "TableInit", segment |-> segment, table |-> table]
ElemDrop(segment) == [op |-> "ElemDrop", segment |-> segment]
DataDrop(segment) == [op |-> "DataDrop", segment |-> segment]

\* no instruction fetched
NoInst == [op |-> "None"]

----------------------------------------------------------------------------
(* Stack values.                                                           *)

\* Value::I32(v)
Val(v) == [kind |-> "Value", ty |-> "I32", val |-> v]
\* Value::I64(v)
ValI64(v) == [kind |-> "Value", ty |-> "I64", val |-> v]
\* Value::Ref(r)
ValRef(r) == [kind |-> "Value", ty |-> "FuncRef", val |-> r]

\* RefVal::NullRef and RefVal::FuncRef(FuncAddr(module, index))
NullRef == [ref |-> "Null", module |-> 0, index |-> 0]
FuncRef(module, index) == [ref |-> "Func", module |-> module, index |-> index]

LabelBlock(a) == [kind |-> "Label", lk |-> "Block", arity |-> a, start |-> 0]
LabelLoop(start, a) == [kind |-> "Label", lk |-> "Loop", arity |-> a, start |-> start]
LabelIf(a) == [kind |-> "Label", lk |-> "If", arity |-> a, start |-> 0]
LabelReturn(a) == [kind |-> "Label", lk |-> "Return", arity |-> a, start |-> 0]
Activation(f) == [kind |-> "Activation", frame |-> f]

Reverse(s) == [i \in 1 .. Len(s) |-> s[Len(s) + 1 - i]]

Front(s) == SubSeq(s, 1, Len(s) - 1)

----------------------------------------------------------------------------
(* The store: function types of the module and the function instances.    *)
(* Every function is a Defined function of module 0; a body is the decoded *)
(* instruction vector, closed by the function's final `end`.               *)

FuncType(p, r) == [params |-> p, returns |-> r]

\* module.get_type(id): type 0 is (i32) -> (i32), type 1 is (i32 i32) -> (i32)
Types == << FuncType(1, 1), FuncType(2, 1) >>

\* FunctionInstance::Defined of module 0
Defined(name, p, r, body) ==
    [name |-> name, native |-> FALSE, module |-> 0, params |-> p, returns |-> r,
     locals |-> 0, body |-> body]

\* FunctionInstance::Defined of module m
DefinedIn(m, name, p, r, body) == [Defined(name, p, r, body) EXCEPT !.module = m]

\* FunctionInstance::Native: a host function, without a module and a body
Native(name, p, r) ==
    [name |-> name, native |-> TRUE, module |-> 0, params |-> p, returns |-> r,
     locals |-> 0, body |-> << >>]

\* WASM_PAGE_SIZE: a page holds as many bytes as 16 of the 32 address bits count
WASM_PAGE_SIZE == 2 ^ (2 * ByteBits)

\* the i32 whose little-endian bytes are 1, 2, 3, 1
StoredWord == 1 + 2 * (2 ^ ByteBits) + 3 * (2 ^ (2 * ByteBits)) + 2 ^ (3 * ByteBits)

\* block block block (br 2; drop): the branch leaves three labels at once
BrUnwindBody ==
    << Block(ValBlockType),          \*  0
         Block(EmptyBlockType),      \*  1
           I32Const(7),              \*  2
           Block(EmptyBlockType),    \*  3
             I32Const(8),            \*  4
             LocalGet(0),            \*  5
             Br(2),                  \*  6
           End,                      \*  7
           Drop,                     \*  8
         End,                        \*  9
         I32Const(9),                \* 10
       End,                          \* 11
       End >>                        \* 12

\* a loop inside a block: br_if 1 leaves the loop and the block, br_if 0 iterates
LoopExitBody ==
    << Block(EmptyBlockType),        \*  0
         Loop(EmptyBlockType),       \*  1
           LocalGet(0),              \*  2
           BrIf(1),                  \*  3
           I32Const(4),              \*  4
           LocalGet(1),              \*  5
           BrIf(0),                  \*  6
           Drop,                     \*  7
           Block(ValBlockType),      \*  8
             I32Const(5),            \*  9
           End,                      \* 10
           Drop,                     \* 11
         End,                        \* 12
       End,                          \* 13
       I32Const(3),                  \* 14
       End >>                        \* 15

\* if/else whose then-branch holds a nested if/else and whose else-branch a block
IfElseBody ==
    << I32Const(6),                  \*  0
       LocalGet(0),                  \*  1
       If(ValBlockType),             \*  2
         LocalGet(1),                \*  3
         If(ValBlockType),           \*  4
           I32Const(1),              \*  5
         Else,                       \*  6
           I32Const(2),              \*  7
         End,                        \*  8
       Else,                         \*  9
         Block(ValBlockType),        \* 10
           I32Const(3),              \* 11
         End,                        \* 12
       End,                          \* 13
       Drop,                         \* 14
       End >>                        \* 15

\* if without else whose body holds a nested if/else and a loop
IfNoElseBody ==
    << LocalGet(0),                  \*  0
       If(EmptyBlockType),           \*  1
         LocalGet(1),                \*  2
         If(EmptyBlockType),         \*  3
           Nop,                      \*  4
         Else,                       \*  5
           Nop,                      \*  6
         End,                        \*  7
         Loop(EmptyBlockType),       \*  8
         End,                        \*  9
       End,                          \* 10
       I32Const(4),                  \* 11
       End >>                        \* 12

\* `return` three labels deep, with operands left in every enclosing scope
ReturnBody ==
    << I32Const(1),                  \*  0
       Block(EmptyBlockType),        \*  1
         I32Const(2),                \*  2
         Loop(EmptyBlockType),       \*  3
           LocalGet(0),              \*  4
           If(EmptyBlockType),       \*  5
             I32Const(10),           \*  6
             I32Const(11),           \*  7
             Return,                 \*  8
           End,                      \*  9
         End,                        \* 10
         Drop,                       \* 11
       End,                          \* 12
       Drop,                         \* 13
       I32Const(12),                 \* 14
       End >>                        \* 15

\* br_if 2 from inside block/loop targets the function's Return label
BrReturnBody ==
    << I32Const(1),                  \*  0
       Block(EmptyBlockType),        \*  1
         I32Const(2),                \*  2
         Loop(EmptyBlockType),       \*  3
           I32Const(5),              \*  4
           LocalGet(0),              \*  5
           LocalGet(0),              \*  6
           BrIf(2),                  \*  7
           Drop,                     \*  8
           Drop,                     \*  9
         End,                        \* 10
         Drop,                       \* 11
       End,                          \* 12
       Drop,                         \* 13
       I32Const(6),                  \* 14
       End >>                        \* 15

\* br_table with a table of two targets and a default
BrTableBody ==
    << Block(ValBlockType),          \*  0
         Block(ValBlockType),        \*  1
           Block(ValBlockType),      \*  2
             I32Const(20),           \*  3
             LocalGet(0),            \*  4
             BrTable(<<0, 1>>, 2),   \*  5
           End,                      \*  6
           Drop,                     \*  7
           I32Const(21),             \*  8
         End,                        \*  9
         Drop,                       \* 10
         I32Const(22),               \* 11
       End,                          \* 12
       End >>                        \* 13

\* block, loop and if with function block types (parameters on the stack)
TypedBody ==
    << I32Const(40),                 \*  0
       LocalGet(0),                  \*  1
       LocalGet(1),                  \*  2
       Block(FuncBlockType(1)),      \*  3
         Drop,                       \*  4
         Loop(FuncBlockType(0)),     \*  5
           LocalGet(1),              \*  6
           BrIf(0),                  \*  7
         End,                        \*  8
         LocalGet(0),                \*  9
         If(FuncBlockType(0)),       \* 10
           Drop,                     \* 11
           I32Const(41),             \* 12
         Else,                       \* 13
           Nop,                      \* 14
         End,                        \* 15
       End,                          \* 16
       End >>                        \* 17

\* two calls with an operand of the caller below the argument
CallerBody ==
    << I32Const(50),                 \*  0
       LocalGet(0),                  \*  1
       Call(9),                      \*  2
       Drop,                         \*  3
       LocalGet(0),                  \*  4
       Call(10),                     \*  5
       End >>                        \*  6

\* callee that leaves by `return` inside an if, or by its final end
CalleeReturnBody ==
    << I32Const(59),                 \*  0
       LocalGet(0),                  \*  1
       If(EmptyBlockType),           \*  2
         I32Const(60),               \*  3
         Return,                     \*  4
       End,                          \*  5
       Drop,                         \*  6
       I32Const(61),                 \*  7
       End >>                        \*  8

\* callee that leaves by br_if to its Return label, or by its final end
CalleeBrBody ==
    << Block(EmptyBlockType),        \*  0
         I32Const(62),               \*  1
         LocalGet(0),                \*  2
         BrIf(1),                    \*  3
         Drop,                       \*  4
       End,                          \*  5
       I32Const(63),                 \*  6
       End >>                        \*  7

\* unreachable inside an if
TrapBody ==
    << LocalGet(0),                  \*  0
       If(EmptyBlockType),           \*  1
         Unreachable,                \*  2
       End,                          \*  3
       I32Const(1),                  \*  4
       End >>                        \*  5

\* instructions that follow a top-level `return`
AfterReturnBody ==
    << I32Const(70),                 \*  0
       Return,                       \*  1
       I32Const(71),                 \*  2
       Unreachable,                  \*  3
       End >>                        \*  4

\* br out of a block with blocks, a loop and an if/else between it and the end
DeadCodeBody ==
    << Block(ValBlockType),          \*  0
         I32Const(1),                \*  1
         LocalGet(0),                \*  2
         If(EmptyBlockType),         \*  3
           I32Const(3),              \*  4
           Br(1),                    \*  5
           Block(EmptyBlockType),    \*  6
             Loop(EmptyBlockType),   \*  7
             End,                    \*  8
           End,                      \*  9
         Else,                       \* 10
           I32Const(4),              \* 11
           Br(0),                    \* 12
           I32Const(0),              \* 13
           If(EmptyBlockType),       \* 14
           Else,                     \* 15
           End,                      \* 16
         End,                        \* 17
       End,                          \* 18
       End >>                        \* 19

\* calls of the host functions 15 (two parameters, two results) and 14
CallHostBody == << I32Const(80), LocalGet(0), LocalGet(1), Call(15), End >>

CallEchoBody == << I32Const(81), LocalGet(0), Call(14), End >>

\* call_indirect through table 0 with the declared type 0, (i32) -> (i32)
CallIndirectBody ==
    << I32Const(82), LocalGet(0), LocalGet(1), CallIndirect(0, 0), End >>

\* call_indirect through table 0 with the declared type 1, (i32 i32) -> (i32)
CallIndirectMismatchBody ==
    << I32Const(83), LocalGet(0), LocalGet(0), LocalGet(1), CallIndirect(1, 0), End >>

\* bodies no validator accepts: an i64 operand or no operand for an i32 parameter
BadCallTypeBody == << I64Const(7), Call(42), End >>

BadCallUnderflowBody == << Call(42), End >>

\* callee that does not read its parameter
CalleeConstBody == << I32Const(64), End >>

\* call of a defined function with two parameters (function 2)
CallTwoBody == << I32Const(84), LocalGet(0), LocalGet(1), Call(2), End >>

\* a call of call_two, which itself calls if_else: two calls deep
CallNestedBody == << LocalGet(0), LocalGet(0), Call(43), End >>

BadHostTypeBody == << I64Const(7), Call(14), End >>

\* i32.store of local 1 at the base local 0 with a static offset
StoreBody(offset) == << LocalGet(0), LocalGet(1), I32Store(offset), End >>

\* i32.store of StoredWord in the last bytes of the first page
StoreEdgeBody ==
    << LocalGet(0), I32Const(StoredWord), I32Store(WASM_PAGE_SIZE - 4), End >>

Store8Body == << LocalGet(0), LocalGet(1), I32Store8(WASM_PAGE_SIZE - 1), End >>

LoadBody == << LocalGet(0), I32Load(WASM_PAGE_SIZE - 4), End >>

MemoryFillBody == << LocalGet(0), I32Const(3), LocalGet(1), MemoryFill(0), End >>

MemoryFillEdgeBody ==
    << I32Const(WASM_PAGE_SIZE - 1), LocalGet(0), LocalGet(1), MemoryFill(0), End >>

MemoryCopyBody ==
    << LocalGet(0), I32Const(WASM_PAGE_SIZE - 2), LocalGet(1), MemoryCopy(0, 0), End >>

MemoryCopyEdgeBody ==
    << I32Const(WASM_PAGE_SIZE - 1), LocalGet(0), LocalGet(1), MemoryCopy(0, 0), End >>

MemoryInitBody == << LocalGet(0), I32Const(2), LocalGet(1), MemoryInit(0, 0), End >>

MemoryInitEdgeBody ==
    << I32Const(WASM_PAGE_SIZE - 1), LocalGet(0), LocalGet(1), MemoryInit(0, 0), End >>

TableFillBody == << LocalGet(0), RefFunc(10), LocalGet(1), TableFill(0), End >>

TableFillEdgeBody == << I32Const(2), RefNull, LocalGet(0), TableFill(0), End >>

TableCopyBody == << LocalGet(0), I32Const(1), LocalGet(1), TableCopy(0, 0), End >>

TableCopyEdgeBody == << I32Const(2), LocalGet(0), LocalGet(1), TableCopy(0, 0), End >>

TableInitBody == << LocalGet(0), I32Const(2), LocalGet(1), TableInit(0, 0), End >>

TableInitEdgeBody == << I32Const(2), LocalGet(0), LocalGet(1), TableInit(0, 0), End >>

\* data.drop, then memory.init from source offset 0: the destination and the
\* length are the parameters
DataDropInitBody ==
    << DataDrop(0), LocalGet(0), I32Const(0), LocalGet(1), MemoryInit(0, 0), End >>

\* data.drop, then memory.init to address 0: the source offset and the length
\* are the parameters
DataDropInitSourceBody ==
    << DataDrop(0), I32Const(0), LocalGet(0), LocalGet(1), MemoryInit(0, 0), End >>

ElemDropInitBody ==
    << ElemDrop(0), LocalGet(0), I32Const(0), LocalGet(1), TableInit(0, 0), End >>

ElemDropInitSourceBody ==
    << ElemDrop(0), I32Const(0), LocalGet(0), LocalGet(1), TableInit(0, 0), End >>

\* a block that ends with two operands above its label
BlockTwoBody == << Block(EmptyBlockType), LocalGet(0), LocalGet(1), End, End >>

\* a function whose results are an i64 and an i32
MixedResultsBody == << I64Const(7), I32Const(5), End >>

\* copies of two bytes / two references between regions that may overlap: the
\* destination and the source are the parameters
MemoryCopyOverlapBody ==
    << LocalGet(0), LocalGet(1), I32Const(2), MemoryCopy(0, 0), End >>

TableCopyOverlapBody ==
    << LocalGet(0), LocalGet(1), I32Const(2), TableCopy(0, 0), End >>

\* a loop iterated by a br_if 1 from a block inside it
LoopNestedBody ==
    << Loop(EmptyBlockType),         \*  0
         I32Const(6),                \*  1
         Block(EmptyBlockType),      \*  2
           I32Const(7),              \*  3
           LocalGet(0),              \*  4
           BrIf(1),                  \*  5
           Drop,                     \*  6
         End,                        \*  7
         Drop,                       \*  8
       End,                          \*  9
       End >>                        \* 10

\* a function of module 0 calling function 55, which module 1 defines, and
\* that function calling function 2 of module 1, which module 0 defines (9)
CallForeignBody == << LocalGet(0), Call(55), End >>

ForeignCallDefinedBody == << LocalGet(0), Call(2), End >>

\* a function of module 1 calling its function 0, the host function 14
ForeignCallHostBody == << LocalGet(0), Call(0), End >>

Funcs ==
    << Defined("br_unwind", 1, 1, BrUnwindBody),        \*  0
       Defined("loop_exit", 2, 1, LoopExitBody),        \*  1
       Defined("if_else", 2, 1, IfElseBody),            \*  2
       Defined("if_no_else", 2, 1, IfNoElseBody),       \*  3
       Defined("return", 1, 1, ReturnBody),             \*  4
       Defined("br_return", 1, 1, BrReturnBody),        \*  5
       Defined("br_table", 1, 1, BrTableBody),          \*  6
       Defined("typed", 2, 2, TypedBody),               \*  7
       Defined("caller", 1, 2, CallerBody),             \*  8
       Defined("callee_return", 1, 1, CalleeReturnBody),\*  9
       Defined("callee_br", 1, 1, CalleeBrBody),        \* 10
       Defined("trap", 1, 1, TrapBody),                 \* 11
       Defined("after_return", 0, 1, AfterReturnBody),  \* 12
       Defined("dead_code", 1, 1, DeadCodeBody),        \* 13
       Native("host_echo", 1, 1),                       \* 14
       Native("host_pair", 2, 2),                       \* 15
       Defined("call_host", 2, 3, CallHostBody),        \* 16
       Defined("call_echo", 1, 2, CallEchoBody),        \* 17
       Defined("call_indirect", 2, 2, CallIndirectBody),                  \* 18
       Defined("call_indirect_mismatch", 2, 2, CallIndirectMismatchBody), \* 19
       Defined("bad_call_type", 0, 1, BadCallTypeBody),                   \* 20
       Defined("bad_call_underflow", 0, 1, BadCallUnderflowBody),         \* 21
       Defined("bad_host_type", 0, 1, BadHostTypeBody),                   \* 22
       Defined("store", 2, 0, StoreBody(0)),                              \* 23
       Defined("store_offset_1", 2, 0, StoreBody(1)),                     \* 24
       Defined("store_offset_u32", 2, 0, StoreBody(2 ^ ValueBits)),       \* 25
       Defined("store_offset_max", 2, 0, StoreBody(2 ^ UsizeBits - 1)),   \* 26
       Defined("store_edge", 1, 0, StoreEdgeBody),                        \* 27
       Defined("store8", 2, 0, Store8Body),                               \* 28
       Defined("load", 1, 1, LoadBody),                                   \* 29
       Defined("memory_fill", 2, 0, MemoryFillBody),                      \* 30
       Defined("memory_fill_edge", 2, 0, MemoryFillEdgeBody),             \* 31
       Defined("memory_copy", 2, 0, MemoryCopyBody),                      \* 32
       Defined("memory_copy_edge", 2, 0, MemoryCopyEdgeBody),             \* 33
       Defined("memory_init", 2, 0, MemoryInitBody),                      \* 34
       Defined("memory_init_edge", 2, 0, MemoryInitEdgeBody),             \* 35
       Defined("table_fill", 2, 0, TableFillBody),                        \* 36
       Defined("table_fill_edge", 1, 0, TableFillEdgeBody),               \* 37
       Defined("table_copy", 2, 0, TableCopyBody),                        \* 38
       Defined("table_copy_edge", 2, 0, TableCopyEdgeBody),               \* 39
       Defined("table_init", 2, 0, TableInitBody),                        \* 40
       Defined("table_init_edge", 2, 0, TableInitEdgeBody),               \* 41
       Defined("callee_const", 1, 1, CalleeConstBody),                    \* 42
       Defined("call_two", 2, 2, CallTwoBody),                            \* 43
       Defined("data_drop_init", 2, 0, DataDropInitBody),                 \* 44
       Defined("data_drop_init_source", 2, 0, DataDropInitSourceBody),    \* 45
       Defined("elem_drop_init", 2, 0, ElemDropInitBody),                 \* 46
       Defined("elem_drop_init_source", 2, 0, ElemDropInitSourceBody),    \* 47
       Defined("mixed_results", 0, 2, MixedResultsBody),                  \* 48
       Defined("block_two", 2, 2, BlockTwoBody),                          \* 49
       Defined("call_nested", 1, 2, CallNestedBody),                      \* 50
       Defined("loop_nested", 1, 0, LoopNestedBody),                      \* 51
       Defined("memory_copy_overlap", 2, 0, MemoryCopyOverlapBody),       \* 52
       Defined("table_copy_overlap", 2, 0, TableCopyOverlapBody),         \* 53
       Defined("call_foreign", 1, 1, CallForeignBody),                    \* 54
       DefinedIn(1, "foreign_call_defined", 1, 1, ForeignCallDefinedBody),\* 55
       DefinedIn(1, "foreign_call_host", 1, 1, ForeignCallHostBody) >>    \* 56

\* the function index space of each module (index -> exec address)
\* the index spaces of each module (index -> address in the store): module 0
\* holds every function but the last one (it imports function 55 from module
\* 1); module 1 imports the host function 14 as its function 0 and function 9
\* of module 0 as its function 2, and defines the last two; both modules share the
\* memory, the table, the element segment and the data segment
Modules ==
    << [funcs |-> [i \in 1 .. Len(Funcs) - 1 |-> i - 1], types |-> Types,
        mems |-> << 0 >>, tables |-> << 0 >>, elems |-> << 0 >>, datas |-> << 0 >>],
       [funcs |-> << 14, Len(Funcs) - 1, 9, Len(Funcs) - 2 >>, types |-> Types,
        mems |-> << 0 >>, tables |-> << 0 >>, elems |-> << 0 >>, datas |-> << 0 >>] >>

\* the memory after instantiation: one page
InitialMemory == [i \in 1 .. WASM_PAGE_SIZE |-> (i - 1) % (2 ^ ByteBits)]

\* the table after instantiation: a function of type 0, a null reference and
\* the host function 14 as module 1 has put it there (its function 0)
InitialTable == << FuncRef(0, 9), NullRef, FuncRef(1, 0) >>

\* the passive element segment and the passive data segment
InitialElem == << FuncRef(0, 10), NullRef, FuncRef(0, 9) >>

InitialData == << 1, 2, 3 >>

\* the Store handed to every call of execute_step
TheStore ==
    [funcs |-> Funcs, modules |-> Modules, mems |-> << InitialMemory >>,
     tables |-> << InitialTable >>, elems |-> << InitialElem >>,
     datas |-> << InitialData >>]

\* store.func_global(exec_addr)
FuncGlobal(exec_addr) == store.funcs[exec_addr + 1]

\* func.inst(index)
InstAt(insts, index) == insts[index + 1]

\* store.func(addr): (function, exec address) of a FuncAddr, or none
StoreFunc(module, index) ==
    IF module + 1 \in DOMAIN store.modules
       /\ index + 1 \in DOMAIN store.modules[module + 1].funcs
    THEN << store.modules[module + 1].funcs[index + 1] >>
    ELSE << >>

----------------------------------------------------------------------------
(* The Stack: one sequence of StackValue entries.  A failing operation     *)
(* answers ok = FALSE together with the stack as it has left it.           *)

\* CallFrame::new_from_func: the arguments followed by the zeroed declared locals
NewFromFunc(exec_addr, func, args, ret_pc) ==
    [module |-> func.module,
     exec_addr |-> exec_addr,
     locals |-> args \o [i \in 1 .. func.locals |-> Val(0)],
     ret_pc |-> ret_pc]

\* positions of the activations (Stack.frame_index)
FrameIndex(s) == {i \in 1 .. Len(s) : s[i].kind = "Activation"}

NumFrames(s) == Cardinality(FrameIndex(s))

\* stack.is_over_top_level(): no activation is left
IsOverTopLevel(s) == \A i \in 1 .. Len(s) : s[i].kind # "Activation"

\* position of the topmost activation, 0 without one
CurrentFrameIndex(s) ==
    CHOOSE i \in 0 .. Len(s) :
        /\ i = 0 \/ s[i].kind = "Activation"
        /\ \A j \in i + 1 .. Len(s) : s[j].kind # "Activation"

\* stack.current_frame(); it fails when is_over_top_level
CurrentFrame(s) == s[CurrentFrameIndex(s)].frame

\* the labels of the current frame, lowest first
CurrentFrameLabels(s) ==
    SelectSeq(SubSeq(s, CurrentFrameIndex(s) + 1, Len(s)), LAMBDA v : v.kind = "Label")

\* stack.is_func_top_level(): the frame holds its Return label only; it fails
\* when is_over_top_level
IsFuncTopLevel(s) == Len(CurrentFrameLabels(s)) = 1

\* stack.frame_label(depth) succeeds
HasFrameLabel(s, depth) == ~IsOverTopLevel(s) /\ depth < Len(CurrentFrameLabels(s))

\* stack.frame_label(depth): the depth-th label of the current frame, 0 = innermost
FrameLabel(s, depth) == CurrentFrameLabels(s)[Len(CurrentFrameLabels(s)) - depth]

\* stack.pop_value()
PopValue(s) ==
    IF s = << >> THEN [ok |-> FALSE, val |-> Val(0), stack |-> s]
    ELSE IF s[Len(s)].kind = "Value"
         THEN [ok |-> TRUE, val |-> s[Len(s)], stack |-> Front(s)]
         ELSE [ok |-> FALSE, val |-> Val(0), stack |-> Front(s)]

\* stack.pop_values(n): the values in the order popped, the top one first
RECURSIVE PopValues(_, _)
PopValues(s, n) ==
    IF n = 0 THEN [ok |-> TRUE, vals |-> << >>, stack |-> s]
    ELSE LET first == PopValue(s)
             rest == PopValues(first.stack, n - 1)
         IN IF ~first.ok THEN [ok |-> FALSE, vals |-> << >>, stack |-> first.stack]
            ELSE [ok |-> rest.ok, vals |-> << first.val >> \o rest.vals,
                  stack |-> rest.stack]

\* the return types a host passes to pop_result: up to MaxTypes of i32, i64
MaxTypes == 2

ValTypes == {"I32", "I64"}

ReturnTypes == UNION {[1 .. n -> ValTypes] : n \in 0 .. MaxTypes}

\* Value::isa
Isa(val, ty) == val.ty = ty

\* the loop of pop_result over the return types reversed: the values popped so
\* far in `results`, the popped one first
RECURSIVE PopResultLoop(_, _, _)
PopResultLoop(s, tys, results) ==
    IF tys = << >> THEN [err |-> "None", vals |-> results, stack |-> s]
    ELSE LET popped == PopValue(s)
         IN IF ~popped.ok
            THEN [err |-> "Stack", vals |-> << >>, stack |-> popped.stack]
            ELSE IF ~Isa(popped.val, Head(tys))
            THEN [err |-> "TypeMismatchReturnValue",
                  vals |-> << popped.val >>, stack |-> popped.stack]
            ELSE PopResultLoop(popped.stack, Tail(tys),
                               Append(results, popped.val))

\* pop_result without the final reversal
PopResultAsPopped(s, return_ty) == PopResultLoop(s, Reverse(return_ty), << >>)

\* Executor::pop_result: Ok(results) has err "None"; an Err carries in vals
\* the mismatching value, if any
PopResult(s, return_ty) ==
    LET r == PopResultLoop(s, Reverse(return_ty), << >>)
    IN IF r.err = "None" THEN [r EXCEPT !.vals = Reverse(r.vals)] ELSE r

\* stack.push_value / push_values: in the order given
PushValues(s, vals) == s \o vals

\* stack.push_label
PushLabel(s, label) == Append(s, label)

\* stack.pop_while(is a Value): the operands above the topmost label or frame
RECURSIVE PopWhileValue(_)
PopWhileValue(s) ==
    IF s = << >> \/ s[Len(s)].kind # "Value" THEN [popped |-> << >>, stack |-> s]
    ELSE LET rest == PopWhileValue(Front(s))
         IN [popped |-> << s[Len(s)] >> \o rest.popped, stack |-> rest.stack]

\* stack.pop_while(is not an Activation): everything above the topmost frame
PopWhileNotActivation(s) == SubSeq(s, 1, CurrentFrameIndex(s))

\* stack.pop_label()
PopLabel(s) ==
    IF s = << >> THEN [ok |-> FALSE, stack |-> s]
    ELSE [ok |-> s[Len(s)].kind = "Label", stack |-> Front(s)]

\* stack.pop_frame()
PopFrame(s) ==
    IF s = << >> THEN [ok |-> FALSE, stack |-> s]
    ELSE [ok |-> s[Len(s)].kind = "Activation", stack |-> Front(s)]

\* stack.set_frame(frame)
SetFrame(s, frame) == Append(s, Activation(frame))

----------------------------------------------------------------------------
(* The Executor.  An instruction's outcome is the executor (pc, stack) it  *)
(* leaves, res, a Signal or the name of a trap, and raw, the result of the *)
(* match of execute_inst; early marks a trap propagated by `?` out of      *)
(* execute_inst, past its closing top-level check.  It also holds the      *)
(* memories and tables it leaves and the calls it made: host, of a host    *)
(* body, stored, of after_store, and entered, of invoke_func.              *)

Ret(p, s, res) ==
    [pc |-> p, stack |-> s, res |-> res, raw |-> res, early |-> FALSE,
     mems |-> store.mems, tables |-> store.tables, elems |-> store.elems,
     datas |-> store.datas, host |-> << >>, stored |-> << >>, entered |-> << >>]

Early(p, s, trap) == [Ret(p, s, trap) EXCEPT !.early = TRUE]

\* pop_as::<i32>()
PopAs(s) ==
    LET v == PopValue(s)
    IN IF ~v.ok THEN [ok |-> FALSE, trap |-> "Stack", val |-> 0, stack |-> v.stack]
       ELSE IF v.val.ty # "I32"
       THEN [ok |-> FALSE, trap |-> "UnexpectedStackValueType", val |-> 0,
             stack |-> v.stack]
       ELSE [ok |-> TRUE, trap |-> "None", val |-> v.val.val, stack |-> v.stack]

\* pop_ref()
PopRef(s) ==
    LET v == PopValue(s)
    IN IF ~v.ok THEN [ok |-> FALSE, trap |-> "Stack", val |-> NullRef, stack |-> v.stack]
       ELSE IF v.val.ty # "FuncRef"
       THEN [ok |-> FALSE, trap |-> "UnexpectedNonRefValueType", val |-> NullRef,
             stack |-> v.stack]
       ELSE [ok |-> TRUE, trap |-> "None", val |-> v.val.val, stack |-> v.stack]

\* self.current_func_insts(store)
CurrentFuncInsts(p) == FuncGlobal(p.func).body

\* mutant of GetTypeArity: params and results exchanged
GetTypeAritySwapped(ty, s) ==
    CASE ty.k = "Empty" -> [ok |-> TRUE, params |-> 0, results |-> 0]
      [] ty.k = "Val" -> [ok |-> TRUE, params |-> 1, results |-> 0]
      [] OTHER ->
           IF IsOverTopLevel(s) THEN [ok |-> FALSE, params |-> 0, results |-> 0]
           ELSE LET t == store.modules[CurrentFrame(s).module + 1].types[ty.id + 1]
                IN [ok |-> TRUE, params |-> t.returns, results |-> t.params]

\* get_type_arity: the (params, results) sizes of a block type
GetTypeArity(ty, s) ==
    CASE ty.k = "Empty" -> [ok |-> TRUE, params |-> 0, results |-> 0]
      [] ty.k = "Val" -> [ok |-> TRUE, params |-> 0, results |-> 1]
      [] OTHER ->
           IF IsOverTopLevel(s) THEN [ok |-> FALSE, params |-> 0, results |-> 0]
           ELSE LET t == store.modules[CurrentFrame(s).module + 1].types[ty.id + 1]
                IN [ok |-> TRUE, params |-> t.params, results |-> t.returns]

\* mutant of IfSkip: stops at the first else or end, whatever its nesting depth
IfSkipAnyDepth(insts, index, depth) ==
    LET j == CHOOSE j \in index .. Len(insts) - 1 :
                 /\ InstAt(insts, j).op \in {"Else", "End"}
                 /\ \A k \in index .. j - 1 : InstAt(insts, k).op \notin {"Else", "End"}
    IN IF InstAt(insts, j).op = "Else" THEN j + 1 ELSE j

\* the scan of `if` with a zero condition: from index at nesting depth, to
\* just after the `else` of depth 1 or onto the `end` that closes depth 1
RECURSIVE IfSkip(_, _, _)
IfSkip(insts, index, depth) ==
    IF index >= Len(insts) THEN index
    ELSE LET k == InstAt(insts, index).op
             d == CASE k = "End" -> depth - 1
                    [] k \in {"Block", "If", "Loop"} -> depth + 1
                    [] OTHER -> depth
         IN IF k = "Else" /\ depth = 1 THEN index + 1
            ELSE IF d = 0 THEN index
            ELSE IfSkip(insts, index + 1, d)

\* mutant of BranchScan: stops after the first end, whatever the nesting depth
BranchScanFirstEnd(insts, index, depth) ==
    LET j == CHOOSE j \in index .. Len(insts) - 1 :
                 /\ InstAt(insts, j).op = "End"
                 /\ \A k \in index .. j - 1 : InstAt(insts, k).op # "End"
    IN j + 1

\* the forward scan of branch: to just after the `end` that closes depth labels
RECURSIVE BranchScan(_, _, _)
BranchScan(insts, index, depth) ==
    IF index >= Len(insts) THEN index
    ELSE LET k == InstAt(insts, index).op
             d == CASE k = "End" -> depth - 1
                    [] k \in {"Block", "If", "Loop"} -> depth + 1
                    [] OTHER -> depth
         IN IF d = 0 THEN index + 1 ELSE BranchScan(insts, index + 1, d)

\* the loop of branch that pops n label scopes with their operands
RECURSIVE Unwind(_, _)
Unwind(s, n) ==
    IF n = 0 THEN [ok |-> TRUE, stack |-> s]
    ELSE LET pl == PopLabel(PopWhileValue(s).stack)
         IN IF ~pl.ok THEN pl ELSE Unwind(pl.stack, n - 1)

\* mutant of DoReturn: the saved return pc is not restored
DoReturnKeepsPc(p, s) ==
    IF IsOverTopLevel(s) THEN Ret(p, s, "Stack")
    ELSE LET pv == PopValues(s, FuncGlobal(p.func).returns)
             pf == PopFrame(PopWhileNotActivation(pv.stack))
         IN IF ~pv.ok THEN Ret(p, pv.stack, "Stack")
            ELSE IF ~pf.ok THEN Ret(p, pf.stack, "Stack")
            ELSE Ret(p, PushValues(pf.stack, Reverse(pv.vals)), "Next")

\* do_return: leave the current function
DoReturn(p, s) ==
    IF IsOverTopLevel(s) THEN Ret(p, s, "Stack")
    ELSE LET ret_pc == CurrentFrame(s).ret_pc
             pv == PopValues(s, FuncGlobal(p.func).returns)
             pf == PopFrame(PopWhileNotActivation(pv.stack))
         IN IF ~pv.ok THEN Ret(p, pv.stack, "Stack")
            ELSE IF ~pf.ok THEN Ret(p, pf.stack, "Stack")
            ELSE Ret(IF ret_pc # << >> THEN ret_pc[1] ELSE p,
                     PushValues(pf.stack, Reverse(pv.vals)), "Next")

\* mutant of Branch: a Loop label continues at the first instruction of the body
BranchLoopSkipsLoop(depth, p, s) ==
    IF ~HasFrameLabel(s, depth) THEN Ret(p, s, "Stack")
    ELSE LET label == FrameLabel(s, depth)
             pv == PopValues(s, label.arity)
             un == Unwind(pv.stack, depth + 1)
             s2 == PushValues(un.stack, Reverse(pv.vals))
         IN IF ~pv.ok THEN Ret(p, pv.stack, "Stack")
            ELSE IF ~un.ok THEN Ret(p, un.stack, "Stack")
            ELSE CASE label.lk = "Loop" ->
                        Ret([p EXCEPT !.inst = label.start + 1], s2, "Next")
                   [] label.lk = "Return" -> DoReturn(p, s2)
                   [] OTHER ->
                        Ret([p EXCEPT !.inst =
                                 BranchScan(CurrentFuncInsts(p), p.inst, depth + 1)],
                            s2, "Next")

\* branch(depth)
Branch(depth, p, s) ==
    IF ~HasFrameLabel(s, depth) THEN Ret(p, s, "Stack")
    ELSE LET label == FrameLabel(s, depth)
             pv == PopValues(s, label.arity)
             un == Unwind(pv.stack, depth + 1)
             s2 == PushValues(un.stack, Reverse(pv.vals))
         IN IF ~pv.ok THEN Ret(p, pv.stack, "Stack")
            ELSE IF ~un.ok THEN Ret(p, un.stack, "Stack")
            ELSE CASE label.lk = "Loop" ->
                        Ret([p EXCEPT !.inst = label.start], s2, "Next")
                   [] label.lk = "Return" -> DoReturn(p, s2)
                   [] OTHER ->
                        Ret([p EXCEPT !.inst =
                                 BranchScan(CurrentFuncInsts(p), p.inst, depth + 1)],
                            s2, "Next")

\* mutant of AsUsize: the magnitude instead of the sign extension
AsUsizeMagnitude(val) == IF val < 0 THEN -val ELSE val

\* `val as usize` of an i32
AsUsize(val) == IF val < 0 THEN val + 2 ^ UsizeBits ELSE val

\* the depth br_table selects for the popped index
BrTableDepth(val, table, default) ==
    IF AsUsize(val) < Len(table) THEN table[AsUsize(val) + 1] ELSE default

\* the loop of invoke that pops one operand per parameter: a pop that fails
\* sets found_mismatch and the loop goes on; args are in the order popped
RECURSIVE PopArgs(_, _)
PopArgs(s, n) ==
    IF n = 0 THEN [args |-> << >>, found_mismatch |-> FALSE, stack |-> s]
    ELSE LET first == PopValue(s)
             rest == PopArgs(first.stack, n - 1)
         IN [args |-> (IF first.ok THEN << first.val >> ELSE << >>) \o rest.args,
             found_mismatch |-> ~first.ok \/ rest.found_mismatch,
             stack |-> rest.stack]

\* func.code().call(args, result, store, module_index) of the host functions
HostCode(name, args) ==
    IF name = "host_pair" THEN << args[2], args[1] >> ELSE args

\* mutant of InvokeNative: the host body gets the arguments as popped
InvokeNativePoppedOrder(func, module, args, p, s, hostok) ==
    [(IF hostok THEN Ret(p, PushValues(s, HostCode(func.name, Reverse(args))), "Next")
      ELSE Ret(p, s, "HostFunctionError"))
        EXCEPT !.host = << [name |-> func.name, args |-> Reverse(args),
                            module_index |-> module] >>]

\* the Native arm of invoke: the host body runs (hostok: it succeeds)
InvokeNative(func, module, args, p, s, hostok) ==
    [(IF hostok THEN Ret(p, PushValues(s, HostCode(func.name, args)), "Next")
      ELSE Ret(p, s, "HostFunctionError"))
        EXCEPT !.host = << [name |-> func.name, args |-> args,
                            module_index |-> module] >>]

\* mutant of InvokeDefined: the Return label gets the parameter count
InvokeDefinedParamArity(func, exec_addr, args, p, s, ihook) ==
    [Ret([module |-> func.module, func |-> exec_addr, inst |-> 0],
         PushLabel(SetFrame(s, NewFromFunc(exec_addr, func, args, << p >>)),
                   LabelReturn(func.params)),
         ihook)
        EXCEPT !.entered = << [name |-> func.name, signal |-> ihook,
                               pc |-> [module |-> func.module, func |-> exec_addr,
                                       inst |-> 0]] >>]

\* mutant of InvokeDefined: the frame saves the pc of the call itself
InvokeDefinedSavesCallPc(func, exec_addr, args, p, s, ihook) ==
    [Ret([module |-> func.module, func |-> exec_addr, inst |-> 0],
         PushLabel(SetFrame(s, NewFromFunc(exec_addr, func, args,
                                           << [p EXCEPT !.inst = @ - 1] >>)),
                   LabelReturn(func.returns)),
         ihook)
        EXCEPT !.entered = << [name |-> func.name, signal |-> ihook,
                               pc |-> [module |-> func.module, func |-> exec_addr,
                                       inst |-> 0]] >>]

\* mutant of InvokeDefined: the frame gets the module of the caller
InvokeDefinedCallerModule(func, exec_addr, args, p, s, ihook) ==
    [Ret([module |-> func.module, func |-> exec_addr, inst |-> 0],
         PushLabel(SetFrame(s, [NewFromFunc(exec_addr, func, args, << p >>)
                                    EXCEPT !.module = p.module]),
                   LabelReturn(func.returns)),
         ihook)
        EXCEPT !.entered = << [name |-> func.name, signal |-> ihook,
                               pc |-> [module |-> func.module, func |-> exec_addr,
                                       inst |-> 0]] >>]

\* mutant of InvokeDefined: the arguments stay on the caller's stack
InvokeDefinedKeepsArgs(func, exec_addr, args, p, s, ihook) ==
    [Ret([module |-> func.module, func |-> exec_addr, inst |-> 0],
         PushLabel(SetFrame(PushValues(s, args),
                            NewFromFunc(exec_addr, func, args, << p >>)),
                   LabelReturn(func.returns)),
         ihook)
        EXCEPT !.entered = << [name |-> func.name, signal |-> ihook,
                               pc |-> [module |-> func.module, func |-> exec_addr,
                                       inst |-> 0]] >>]

\* the Defined arm of invoke: enter the function, then interceptor.invoke_func
InvokeDefined(func, exec_addr, args, p, s, ihook) ==
    [Ret([module |-> func.module, func |-> exec_addr, inst |-> 0],
         PushLabel(SetFrame(s, NewFromFunc(exec_addr, func, args, << p >>)),
                   LabelReturn(func.returns)),
         ihook)
        EXCEPT !.entered = << [name |-> func.name, signal |-> ihook,
                               pc |-> [module |-> func.module, func |-> exec_addr,
                                       inst |-> 0]] >>]

\* invoke(addr) with addr = (module, index)
Invoke(module, index, p, s, ihook, hostok) ==
    IF StoreFunc(module, index) = << >> THEN Ret(p, s, "UndefinedFunc")
    ELSE LET exec_addr == StoreFunc(module, index)[1]
             func == FuncGlobal(exec_addr)
             pa == PopArgs(s, func.params)
         IN IF pa.found_mismatch THEN Ret(p, pa.stack, "DirectCallTypeMismatch")
            ELSE IF func.native
            THEN InvokeNative(func, module, Reverse(pa.args), p, pa.stack, hostok)
            ELSE InvokeDefined(func, exec_addr, Reverse(pa.args), p, pa.stack, ihook)

\* Block / Loop / If common part: pop the params, push the label, push them back
EnterBlock(label, params, p, s) ==
    LET pv == PopValues(s, params)
    IN IF ~pv.ok THEN Early(p, pv.stack, "Stack")
       ELSE Ret(p, PushValues(PushLabel(pv.stack, label), Reverse(pv.vals)), "Next")

ExecBlock(ty, p, s) ==
    LET ar == GetTypeArity(ty, s)
    IN IF ~ar.ok THEN Early(p, s, "Stack")
       ELSE EnterBlock(LabelBlock(ar.results), ar.params, p, s)

ExecLoop(ty, p, s) ==
    LET ar == GetTypeArity(ty, s)
    IN IF ~ar.ok THEN Early(p, s, "Stack")
       ELSE EnterBlock(LabelLoop(p.inst - 1, ar.params), ar.params, p, s)

ExecIf(ty, p, s) ==
    LET cond == PopAs(s)
        ar == GetTypeArity(ty, cond.stack)
        entered == EnterBlock(LabelIf(ar.results), ar.params, p, cond.stack)
    IN IF ~cond.ok THEN Early(p, cond.stack, cond.trap)
       ELSE IF ~ar.ok THEN Early(p, cond.stack, "Stack")
       ELSE IF entered.early \/ cond.val # 0 THEN entered
       ELSE [entered EXCEPT !.pc.inst = IfSkip(CurrentFuncInsts(p), p.inst, 1)]

\* mutant of ExecElse: falls through into the else-branch
ExecElseFallsThrough(p, s) == Ret(p, s, "Next")

\* `else` reached by the then-branch
ExecElse(p, s) == Branch(0, p, s)

\* mutant of ExecEnd: the end of a block drops the operands above its label
ExecEndDropsOperands(p, s) ==
    IF IsOverTopLevel(s) THEN Early(p, s, "Stack")
    ELSE IF IsFuncTopLevel(s)
    THEN LET ret_pc == CurrentFrame(s).ret_pc
             pv == PopValues(s, FuncGlobal(p.func).returns)
             pl == PopLabel(pv.stack)
             pf == PopFrame(pl.stack)
         IN IF ~pv.ok THEN Early(p, pv.stack, "Stack")
            ELSE IF ~pl.ok THEN Early(p, pl.stack, "Stack")
            ELSE IF ~pf.ok THEN Early(p, pf.stack, "Stack")
            ELSE IF ret_pc # << >>
                 THEN Ret(ret_pc[1], PushValues(pf.stack, Reverse(pv.vals)), "Next")
                 ELSE Ret(p, PushValues(pf.stack, Reverse(pv.vals)), "End")
    ELSE LET pw == PopWhileValue(s)
             pl == PopLabel(pw.stack)
         IN IF ~pl.ok THEN Early(p, pl.stack, "Stack")
            ELSE Ret(p, pl.stack, "Next")

ExecEnd(p, s) ==
    IF IsOverTopLevel(s) THEN Early(p, s, "Stack")
    ELSE IF IsFuncTopLevel(s)
    THEN \* the end of a function is reached without a jump
         LET ret_pc == CurrentFrame(s).ret_pc
             pv == PopValues(s, FuncGlobal(p.func).returns)
             pl == PopLabel(pv.stack)
             pf == PopFrame(pl.stack)
         IN IF ~pv.ok THEN Early(p, pv.stack, "Stack")
            ELSE IF ~pl.ok THEN Early(p, pl.stack, "Stack")
            ELSE IF ~pf.ok THEN Early(p, pf.stack, "Stack")
            ELSE IF ret_pc # << >>
                 THEN Ret(ret_pc[1], PushValues(pf.stack, Reverse(pv.vals)), "Next")
                 ELSE Ret(p, PushValues(pf.stack, Reverse(pv.vals)), "End")
    ELSE \* the end of a block is reached without a jump
         LET pw == PopWhileValue(s)
             pl == PopLabel(pw.stack)
         IN IF ~pl.ok THEN Early(p, pl.stack, "Stack")
            ELSE Ret(p, PushValues(pl.stack, Reverse(pw.popped)), "Next")

ExecBrIf(depth, p, s) ==
    LET cond == PopAs(s)
    IN IF ~cond.ok THEN Early(p, cond.stack, cond.trap)
       ELSE IF cond.val # 0 THEN Branch(depth, p, cond.stack)
       ELSE Ret(p, cond.stack, "Next")

ExecBrTable(table, default, p, s) ==
    LET val == PopAs(s)
    IN IF ~val.ok THEN Early(p, val.stack, val.trap)
       ELSE Branch(BrTableDepth(val.val, table, default), p, val.stack)

ExecCall(function_index, p, s, ihook, hostok) ==
    IF IsOverTopLevel(s) THEN Early(p, s, "Stack")
    ELSE Invoke(CurrentFrame(s).module, function_index, p, s, ihook, hostok)

\* store.table(TableAddr(module, index))
StoreTable(module, index) == store.tables[store.modules[module + 1].tables[index + 1] + 1]

\* TableInstance::get_at(index) finds an element: the index is in the table
TableHasIndex(table, index) == index < Len(table)

\* mutant of CallIndirectRef: the callee is invoked whatever its signature
CallIndirectRefUnchecked(ref, ty, p, s, ihook, hostok) ==
    IF StoreFunc(ref.module, ref.index) = << >> THEN Early(p, s, "UndefinedFunc")
    ELSE Invoke(ref.module, ref.index, p, s, ihook, hostok)

\* the callee of call_indirect once the reference is a FuncRef: its signature
\* is compared with the declared type before it is invoked
CallIndirectRef(ref, ty, p, s, ihook, hostok) ==
    IF StoreFunc(ref.module, ref.index) = << >> THEN Early(p, s, "UndefinedFunc")
    ELSE LET func == FuncGlobal(StoreFunc(ref.module, ref.index)[1])
         IN IF FuncType(func.params, func.returns) = ty
            THEN Invoke(ref.module, ref.index, p, s, ihook, hostok)
            ELSE Ret(p, s, "IndirectCallTypeMismatch")

ExecCallIndirect(index, table_index, p, s, ihook, hostok) ==
    IF IsOverTopLevel(s) THEN Early(p, s, "Stack")
    ELSE LET frame == CurrentFrame(s)
             ty == store.modules[frame.module + 1].types[index + 1]
             buf_index == PopAs(s)
             table == StoreTable(frame.module, table_index)
         IN IF ~buf_index.ok THEN Early(p, buf_index.stack, buf_index.trap)
            ELSE IF ~TableHasIndex(table, AsUsize(buf_index.val))
            THEN Early(p, buf_index.stack, "Table")
            ELSE IF table[AsUsize(buf_index.val) + 1].ref = "Null"
            THEN Early(p, buf_index.stack, "UndefinedFunc")
            ELSE CallIndirectRef(table[AsUsize(buf_index.val) + 1], ty, p,
                                 buf_index.stack, ihook, hostok)

ExecDrop(p, s) ==
    LET val == PopValue(s)
    IN IF ~val.ok THEN Early(p, val.stack, "Stack") ELSE Ret(p, val.stack, "Next")

ExecLocalGet(local_index, p, s) ==
    IF IsOverTopLevel(s) THEN Early(p, s, "Stack")
    ELSE Ret(p, PushValues(s, << CurrentFrame(s).locals[local_index + 1] >>), "Next")

----------------------------------------------------------------------------
(* Memory, table and segment instances: region validation and the reads    *)
(* and writes it guards.  A memory is its bytes, a table or an element     *)
(* segment its references, a data segment its bytes.                       *)

\* validate_region(offset, size) of a memory, table or segment: offset + len
\* lies within the instance
ValidateRegion(buffer, offset, size) == offset + size <= Len(buffer)

\* the bytes or references written at offset, the region being valid
WriteRegion(buffer, offset, values) ==
    [i \in 1 .. Len(buffer) |->
        IF offset < i /\ i <= offset + Len(values) THEN values[i - offset] ELSE buffer[i]]

\* the size bytes or references read at offset, the region being valid
ReadRegion(buffer, offset, size) == SubSeq(buffer, offset + 1, offset + size)

\* page_count of a memory
PageCount(data) == Len(data) \div WASM_PAGE_SIZE

\* store.memory(MemoryAddr(module, index)) and the like: the address in the store
MemoryAddr(module, index) == store.modules[module + 1].mems[index + 1]

TableAddr(module, index) == store.modules[module + 1].tables[index + 1]

ElemAddr(module, index) == store.modules[module + 1].elems[index + 1]

DataAddr(module, index) == store.modules[module + 1].datas[index + 1]

----------------------------------------------------------------------------
(* Loads, stores and the bulk instructions of the Executor.                *)

\* u32::from_le_bytes(v.to_le_bytes()) of an i32
AsU32(v) == IF v < 0 THEN v + 2 ^ ValueBits ELSE v

\* the i32 of an unsigned 32-bit pattern
AsI32(u) == IF u >= 2 ^ (ValueBits - 1) THEN u - 2 ^ ValueBits ELSE u

\* val.into_le_bytes() of an i32: four bytes, the lowest first
IntoLeBytes(v) == [i \in 1 .. 4 |-> (AsU32(v) \div (2 ^ (ByteBits * (i - 1)))) % (2 ^ ByteBits)]

\* i32::from_le(bytes)
FromLeBytes(b) ==
    AsI32(b[1] + b[2] * 2 ^ ByteBits + b[3] * 2 ^ (2 * ByteBits) + b[4] * 2 ^ (3 * ByteBits))

\* mutant of MemAddr: the 32-bit sum wraps around instead of trapping
MemAddrWraps(base, offset, memory64) ==
    IF memory64
    THEN [ok |-> offset + base <= 2 ^ UsizeBits - 1, addr |-> offset + base]
    ELSE IF offset > 2 ^ ValueBits - 1 THEN [ok |-> FALSE, addr |-> 0]
    ELSE [ok |-> TRUE, addr |-> (offset + base) % (2 ^ ValueBits)]

\* mem_addr(base, offset, memory64): checked_add in u64, or try_into and
\* checked_add in u32
MemAddr(base, offset, memory64) ==
    IF memory64
    THEN [ok |-> offset + base <= 2 ^ UsizeBits - 1, addr |-> offset + base]
    ELSE IF offset > 2 ^ ValueBits - 1 THEN [ok |-> FALSE, addr |-> 0]
    ELSE [ok |-> offset + base <= 2 ^ ValueBits - 1, addr |-> offset + base]

\* mutant of StoreBuf: only the first byte of the region is validated
StoreBufChecksFirstByte(addr, buf, p, s, ahook) ==
    IF IsOverTopLevel(s) THEN Early(p, s, "Stack")
    ELSE IF ~ValidateRegion(store.mems[MemoryAddr(CurrentFrame(s).module, 0) + 1],
                            addr, 1)
    THEN Early(p, s, "Memory")
    ELSE [Ret(p, s, ahook)
            EXCEPT !.mems[MemoryAddr(CurrentFrame(s).module, 0) + 1] =
                       WriteRegion(@, addr, buf),
                   !.stored = << [addr |-> addr, bytes |-> buf] >>]

\* the tail of store and store_with_width: the write, then after_store
StoreBuf(addr, buf, p, s, ahook) ==
    IF IsOverTopLevel(s) THEN Early(p, s, "Stack")
    ELSE IF ~ValidateRegion(store.mems[MemoryAddr(CurrentFrame(s).module, 0) + 1],
                            addr, Len(buf))
    THEN Early(p, s, "Memory")
    ELSE [Ret(p, s, ahook)
            EXCEPT !.mems[MemoryAddr(CurrentFrame(s).module, 0) + 1] =
                       WriteRegion(@, addr, buf),
                   !.stored = << [addr |-> addr, bytes |-> buf] >>]

\* mutant of ExecStore: the static offset is left out of the address
ExecStoreIgnoresOffset(offset, width, p, s, ahook) ==
    LET val == PopAs(s)
        base_addr == PopAs(val.stack)
        addr == MemAddr(AsU32(base_addr.val), 0, config.memory64)
    IN IF ~val.ok THEN Early(p, val.stack, val.trap)
       ELSE IF ~base_addr.ok THEN Early(p, base_addr.stack, base_addr.trap)
       ELSE IF ~addr.ok THEN Early(p, base_addr.stack, "MemoryAddrOverflow")
       ELSE StoreBuf(addr.addr, SubSeq(IntoLeBytes(val.val), 1, width), p,
                     base_addr.stack, ahook)

\* store::<i32>(offset) and store_with_width::<i32>(offset, width)
ExecStore(offset, width, p, s, ahook) ==
    LET val == PopAs(s)
        base_addr == PopAs(val.stack)
        addr == MemAddr(AsU32(base_addr.val), offset, config.memory64)
    IN IF ~val.ok THEN Early(p, val.stack, val.trap)
       ELSE IF ~base_addr.ok THEN Early(p, base_addr.stack, base_addr.trap)
       ELSE IF ~addr.ok THEN Early(p, base_addr.stack, "MemoryAddrOverflow")
       ELSE StoreBuf(addr.addr, SubSeq(IntoLeBytes(val.val), 1, width), p,
                     base_addr.stack, ahook)

\* load::<i32>(offset)
ExecLoad(offset, p, s) ==
    LET base_addr == PopAs(s)
        addr == MemAddr(AsU32(base_addr.val), offset, config.memory64)
        mem == store.mems[MemoryAddr(CurrentFrame(s).module, 0) + 1]
    IN IF ~base_addr.ok THEN Early(p, base_addr.stack, base_addr.trap)
       ELSE IF ~addr.ok THEN Early(p, base_addr.stack, "MemoryAddrOverflow")
       ELSE IF IsOverTopLevel(s) THEN Early(p, base_addr.stack, "Stack")
       ELSE IF ~ValidateRegion(mem, addr.addr, 4) THEN Early(p, base_addr.stack, "Memory")
       ELSE Ret(p, PushValues(base_addr.stack,
                              << Val(FromLeBytes(ReadRegion(mem, addr.addr, 4))) >>),
                "Next")

\* the three pop_as::<i32>()? that open a bulk instruction: a, then b, then c
\* (a pop that succeeds leaves the stack without its top)
PopAs3(s) ==
    LET a == PopAs(s)
        b == PopAs(Front(s))
        c == PopAs(Front(Front(s)))
    IN IF ~a.ok THEN [ok |-> FALSE, trap |-> a.trap, a |-> 0, b |-> 0, c |-> 0,
                      stack |-> a.stack]
       ELSE IF ~b.ok THEN [ok |-> FALSE, trap |-> b.trap, a |-> 0, b |-> 0, c |-> 0,
                           stack |-> b.stack]
       ELSE [ok |-> c.ok, trap |-> c.trap, a |-> AsUsize(a.val), b |-> AsUsize(b.val),
             c |-> AsUsize(c.val), stack |-> c.stack]

\* a copy that reads each source element when it is about to write it
RECURSIVE CopyForward(_, _, _, _)
CopyForward(buffer, src_base, dst_base, n) ==
    IF n = 0 THEN buffer
    ELSE LET b == CopyForward(buffer, src_base, dst_base, n - 1)
         IN [b EXCEPT ![dst_base + n] = b[src_base + n]]

\* mutant of MemoryCopyRegions: the bytes are copied one by one, lowest first
MemoryCopyRegionsStreams(n, src_base, dst_base, src, dst, p, s) ==
    IF ~ValidateRegion(store.mems[src + 1], src_base, n) THEN Early(p, s, "Memory")
    ELSE IF ~ValidateRegion(store.mems[dst + 1], dst_base, n) THEN Early(p, s, "Memory")
    ELSE [Ret(p, s, "Next")
            EXCEPT !.mems[dst + 1] = CopyForward(@, src_base, dst_base, n)]

\* mutant of MemoryCopyRegions: the bytes that fit are written before the
\* destination region is validated
MemoryCopyRegionsWritesFirst(n, src_base, dst_base, src, dst, p, s) ==
    IF ~ValidateRegion(store.mems[src + 1], src_base, n) THEN Early(p, s, "Memory")
    ELSE [(IF ValidateRegion(store.mems[dst + 1], dst_base, n)
           THEN Ret(p, s, "Next") ELSE Early(p, s, "Memory"))
            EXCEPT !.mems[dst + 1] =
                       WriteRegion(@, dst_base,
                                   ReadRegion(store.mems[src + 1], src_base, n))]

\* memory.copy once the operands are popped: src and dst are store addresses
MemoryCopyRegions(n, src_base, dst_base, src, dst, p, s) ==
    IF ~ValidateRegion(store.mems[src + 1], src_base, n) THEN Early(p, s, "Memory")
    ELSE IF ~ValidateRegion(store.mems[dst + 1], dst_base, n) THEN Early(p, s, "Memory")
    ELSE [Ret(p, s, "Next")
            EXCEPT !.mems[dst + 1] =
                       WriteRegion(@, dst_base,
                                   ReadRegion(store.mems[src + 1], src_base, n))]

\* memory.copy; ops are the operands popped: n, the source and the destination
ExecMemoryCopy(src, dst, module_index, p, ops) ==
    IF ~ops.ok THEN Early(p, ops.stack, ops.trap)
    ELSE MemoryCopyRegions(ops.a, ops.b, ops.c, MemoryAddr(module_index, src),
                              MemoryAddr(module_index, dst), p, ops.stack)

\* memory.fill; ops are the operands popped: n, the value and the offset; the
\* low byte of the value is written
ExecMemoryFill(mem, module_index, p, ops) ==
    LET addr == MemoryAddr(module_index, mem)
    IN IF ~ops.ok THEN Early(p, ops.stack, ops.trap)
       ELSE IF ~ValidateRegion(store.mems[addr + 1], ops.c, ops.a)
       THEN Early(p, ops.stack, "Memory")
       ELSE [Ret(p, ops.stack, "Next")
               EXCEPT !.mems[addr + 1] =
                          WriteRegion(@, ops.c, [i \in 1 .. ops.a |-> ops.b % (2 ^ ByteBits)])]

\* memory.init; ops are the operands popped: n, the source and the destination
ExecMemoryInit(segment, mem, module_index, p, ops) ==
    LET addr == MemoryAddr(module_index, mem)
        data == store.datas[DataAddr(module_index, segment) + 1]
    IN IF ~ops.ok THEN Early(p, ops.stack, ops.trap)
       ELSE IF ~ValidateRegion(store.mems[addr + 1], ops.c, ops.a)
       THEN Early(p, ops.stack, "Memory")
       ELSE IF ~ValidateRegion(data, ops.b, ops.a) THEN Early(p, ops.stack, "Data")
       ELSE [Ret(p, ops.stack, "Next")
               EXCEPT !.mems[addr + 1] = WriteRegion(@, ops.c, ReadRegion(data, ops.b, ops.a))]

\* table.fill: n, the reference and the index are popped
ExecTableFill(table, module_index, p, s) ==
    LET n == PopAs(s)
        ref_val == PopRef(n.stack)
        index == PopAs(ref_val.stack)
        addr == TableAddr(module_index, table)
    IN IF ~n.ok THEN Early(p, n.stack, n.trap)
       ELSE IF ~ref_val.ok THEN Early(p, ref_val.stack, ref_val.trap)
       ELSE IF ~index.ok THEN Early(p, index.stack, index.trap)
       ELSE IF ~ValidateRegion(store.tables[addr + 1], AsUsize(index.val), AsUsize(n.val))
       THEN Early(p, index.stack, "Table")
       ELSE [Ret(p, index.stack, "Next")
               EXCEPT !.tables[addr + 1] =
                          WriteRegion(@, AsUsize(index.val),
                                      [i \in 1 .. AsUsize(n.val) |-> ref_val.val])]

\* table.copy once the operands are popped: the source references are read
\* with get_at, both regions are validated, then set_at writes
TableCopyRegions(n, src_base, dst_base, src, dst, p, s) ==
    IF \E offset \in 0 .. Len(store.tables[src + 1]) :
           offset < n /\ src_base + offset >= Len(store.tables[src + 1])
    THEN Early(p, s, "Table")
    ELSE IF ~ValidateRegion(store.tables[src + 1], src_base, n) THEN Early(p, s, "Table")
    ELSE IF ~ValidateRegion(store.tables[dst + 1], dst_base, n) THEN Early(p, s, "Table")
    ELSE [Ret(p, s, "Next")
            EXCEPT !.tables[dst + 1] =
                       WriteRegion(@, dst_base,
                                   ReadRegion(store.tables[src + 1], src_base, n))]

\* table.copy; ops are the operands popped: n, the source and the destination
ExecTableCopy(dst_table, src_table, module_index, p, ops) ==
    IF ~ops.ok THEN Early(p, ops.stack, ops.trap)
       ELSE TableCopyRegions(ops.a, ops.b, ops.c, TableAddr(module_index, src_table),
                             TableAddr(module_index, dst_table), p, ops.stack)

\* table.init; ops are the operands popped: n, the source and the destination
ExecTableInit(segment, table, module_index, p, ops) ==
    LET addr == TableAddr(module_index, table)
        elem == store.elems[ElemAddr(module_index, segment) + 1]
    IN IF ~ops.ok THEN Early(p, ops.stack, ops.trap)
       ELSE IF ~ValidateRegion(store.tables[addr + 1], ops.c, ops.a)
       THEN Early(p, ops.stack, "Table")
       ELSE IF ~ValidateRegion(elem, ops.b, ops.a) THEN Early(p, ops.stack, "Element")
       ELSE [Ret(p, ops.stack, "Next")
               EXCEPT !.tables[addr + 1] = WriteRegion(@, ops.c, ReadRegion(elem, ops.b, ops.a))]

\* drop_elem / drop_bytes of a segment: a dropped segment is validated as an
\* empty one
DropSegment(segment) == << >>

\* mutant of ExecElemDrop: the segment is left as it is
ExecElemDropKeeps(segment, module_index, p, s) == Ret(p, s, "Next")

\* elem.drop
ExecElemDrop(segment, module_index, p, s) ==
    [Ret(p, s, "Next") EXCEPT !.elems[ElemAddr(module_index, segment) + 1] = DropSegment(@)]

\* data.drop
ExecDataDrop(segment, module_index, p, s) ==
    [Ret(p, s, "Next") EXCEPT !.datas[DataAddr(module_index, segment) + 1] = DropSegment(@)]

\* the match on inst.kind of execute_inst; p is the pc already incremented
Dispatch(inst, p, s, ihook, ahook, hostok) ==
    CASE inst.op = "Unreachable" -> Ret(p, s, "Unreachable")
      [] inst.op = "Nop" -> Ret(p, s, "Next")
      [] inst.op = "Block" -> ExecBlock(inst.ty, p, s)
      [] inst.op = "Loop" -> ExecLoop(inst.ty, p, s)
      [] inst.op = "If" -> ExecIf(inst.ty, p, s)
      [] inst.op = "Else" -> ExecElse(p, s)
      [] inst.op = "End" -> ExecEnd(p, s)
      [] inst.op = "Br" -> Branch(inst.relative_depth, p, s)
      [] inst.op = "BrIf" -> ExecBrIf(inst.relative_depth, p, s)
      [] inst.op = "BrTable" -> ExecBrTable(inst.table, inst.default, p, s)
      [] inst.op = "Return" -> DoReturn(p, s)
      [] inst.op = "Call" -> ExecCall(inst.function_index, p, s, ihook, hostok)
      [] inst.op = "CallIndirect" ->
           ExecCallIndirect(inst.index, inst.table_index, p, s, ihook, hostok)
      [] inst.op = "Drop" -> ExecDrop(p, s)
      [] inst.op = "I32Const" -> Ret(p, PushValues(s, << Val(inst.value) >>), "Next")
      [] inst.op = "I64Const" -> Ret(p, PushValues(s, << ValI64(inst.value) >>), "Next")
      [] inst.op = "LocalGet" -> ExecLocalGet(inst.local_index, p, s)
      [] inst.op = "RefNull" -> Ret(p, PushValues(s, << ValRef(NullRef) >>), "Next")
      [] inst.op = "RefFunc" ->
           Ret(p, PushValues(s, << ValRef(FuncRef(FuncGlobal(p.func).module,
                                                  inst.function_index)) >>), "Next")
      [] inst.op = "I32Load" -> ExecLoad(inst.offset, p, s)
      [] inst.op = "I32Store" -> ExecStore(inst.offset, 4, p, s, ahook)
      [] inst.op = "I32Store8" -> ExecStore(inst.offset, 1, p, s, ahook)
      [] inst.op = "MemoryCopy" ->
           ExecMemoryCopy(inst.src, inst.dst, FuncGlobal(p.func).module, p, PopAs3(s))
      [] inst.op = "MemoryFill" ->
           ExecMemoryFill(inst.mem, FuncGlobal(p.func).module, p, PopAs3(s))
      [] inst.op = "MemoryInit" ->
           ExecMemoryInit(inst.segment, inst.mem, FuncGlobal(p.func).module, p, PopAs3(s))
      [] inst.op = "TableFill" -> ExecTableFill(inst.table, FuncGlobal(p.func).module, p, s)
      [] inst.op = "TableCopy" ->
           ExecTableCopy(inst.dst_table, inst.src_table, FuncGlobal(p.func).module, p,
                         PopAs3(s))
      [] inst.op = "TableInit" ->
           ExecTableInit(inst.segment, inst.table, FuncGlobal(p.func).module, p, PopAs3(s))
      [] inst.op = "ElemDrop" -> ExecElemDrop(inst.segment, FuncGlobal(p.func).module, p, s)
      [] inst.op = "DataDrop" -> ExecDataDrop(inst.segment, FuncGlobal(p.func).module, p, s)

\* mutant of TopLevelCheck: the match's result is returned as it is
TopLevelCheckSkipped(r) == r

\* the closing check of execute_inst: End once no activation is left
TopLevelCheck(r) ==
    IF r.early THEN r
    ELSE IF IsOverTopLevel(r.stack) THEN [r EXCEPT !.res = "End"]
    ELSE r

\* execute_inst: the pc moves on, the match, the closing check
ExecuteInst(inst, p, s, ihook, ahook, hostok) ==
    TopLevelCheck(Dispatch(inst, [p EXCEPT !.inst = @ + 1], s, ihook, ahook, hostok))

\* mutant of CombineSignal: the pre-hook's signal replaces the instruction's
CombineSignalHookWins(signal, res) == IF res = "End" THEN "End" ELSE signal

\* mutant of CombineSignal: the pre-hook's signal is dropped
CombineSignalDropsHook(signal, res) == res

\* the match (signal, result) that closes execute_step
CombineSignal(signal, res) ==
    IF res = "End" THEN "End"
    ELSE IF res = "Next" THEN signal
    ELSE res

\* mutant of ExecuteStepResult: the instruction is executed before the
\* pre-hook's trap is returned
ExecuteStepResultDispatchesFirst(p, s, hook, ihook, ahook, hostok) ==
    IF p.inst >= Len(CurrentFuncInsts(p))
    THEN [Early(p, s, "NoMoreInstruction") EXCEPT !.raw = "None"]
    ELSE [ExecuteInst(InstAt(CurrentFuncInsts(p), p.inst), p, s, ihook, ahook, hostok)
              EXCEPT !.res = IF hook = "Trap" THEN "Interceptor"
                             ELSE IF IsTrap(@) THEN @ ELSE CombineSignal(hook, @),
                     !.raw = IF hook = "Trap" THEN "None" ELSE @]

\* execute_step with the pre-hook answering hook, invoke_func answering ihook,
\* after_store answering ahook and a host body succeeding or not (hostok)
ExecuteStepResult(p, s, hook, ihook, ahook, hostok) ==
    IF p.inst >= Len(CurrentFuncInsts(p))
    THEN [Early(p, s, "NoMoreInstruction") EXCEPT !.raw = "None"]
    ELSE IF hook = "Trap"
    THEN [Early(p, s, "Interceptor") EXCEPT !.raw = "None"]
    ELSE [ExecuteInst(InstAt(CurrentFuncInsts(p), p.inst), p, s, ihook, ahook, hostok)
              EXCEPT !.res = IF IsTrap(@) THEN @ ELSE CombineSignal(hook, @)]

----------------------------------------------------------------------------
(* The state machine.                                                      *)

\* Executor::new for an entry function called as the hosts call it: the
\* frame has no return pc and the Return label has the function's result count
\* ---- the wast harness (crates/wast-spec) ----

\* module names of the directives; NoName is a directive without an id
Names == {"a", "b"}

NoName == "-"

\* no module index
NoIndex == -1

\* the modules the directives instantiate, by what matters here: whether the
\* binary validates, whether it links, and its start function. start "none":
\* no start section; "nop": returns; "unreachable": traps; "once": reads a
\* global of its module, traps when it is set and sets it otherwise
WastModules ==
    [valid : BOOLEAN, links : BOOLEAN,
     start : {"none", "nop", "unreachable", "once"}]

\* the most modules a store holds
MaxModules == 2

\* the start function invoked on module instance m: traps or not, and the
\* instance afterwards
InvokeStart(m) ==
    CASE m.start = "unreachable" -> [trap |-> TRUE, module |-> m]
      [] m.start = "once" -> [trap |-> m.ran, module |-> [m EXCEPT !.ran = TRUE]]
      [] OTHER -> [trap |-> FALSE, module |-> m]

\* store.load_module(optional name, bytes): a link or decode error leaves the
\* store untouched; the start function, if present, is invoked before
\* load_module returns and its trap is a load failure that registers
\* nothing; otherwise the module is registered under its index and name
LoadModule(w, name, bytes) ==
    LET m == [start |-> bytes.start, ran |-> FALSE]
        started == IF bytes.start = "none" THEN [trap |-> FALSE, module |-> m]
                   ELSE InvokeStart(m)
    IN IF ~bytes.links \/ started.trap
       THEN [ok |-> FALSE, index |-> NoIndex, w |-> w]
       ELSE [ok |-> TRUE, index |-> Len(w.modules),
             w |-> [w EXCEPT !.modules = Append(@, started.module),
                             !.names = IF name = NoName THEN @
                                       ELSE [@ EXCEPT ![name] = Len(w.modules)]]]

\* what a directive leaves in `last`
Directive(kind, name, bytes, index, error) ==
    [kind |-> kind, name |-> name, bytes |-> bytes, index |-> index,
     error |-> error]

\* WastContext::module(module_id, bytes)
WastModule(w, name, bytes) ==
    IF ~bytes.valid
    THEN [w EXCEPT !.last = Directive("module", name, bytes, NoIndex, "validate")]
    ELSE LET loaded == LoadModule(w, name, bytes)
             module_index == loaded.index
             started == InvokeStart(loaded.w.modules[module_index + 1])
             w2 == [loaded.w EXCEPT !.modules[module_index + 1] = started.module]
         IN IF ~loaded.ok
            THEN [w EXCEPT !.last = Directive("module", name, bytes, NoIndex,
                                              "Failed to instantiate")]
            ELSE IF bytes.start # "none" /\ started.trap
            THEN [w2 EXCEPT !.last = Directive("module", name, bytes, module_index,
                                               "Failed to exec start func")]
            ELSE [(IF bytes.start # "none" THEN w2 ELSE loaded.w)
                    EXCEPT !.current = module_index,
                           !.module_index_by_name =
                               IF name = NoName THEN @
                               ELSE [@ EXCEPT ![name] = module_index],
                           !.last = Directive("module", name, bytes, module_index,
                                              "None")]

\* WastContext::perform_execute(WastExecute::Module(module))
PerformExecuteModule(w, bytes) ==
    IF ~bytes.valid
    THEN [w EXCEPT !.last = Directive("execute", NoName, bytes, NoIndex, "validate")]
    ELSE LET loaded == LoadModule(w, NoName, bytes)
             module_index == loaded.index
             started == InvokeStart(loaded.w.modules[module_index + 1])
             w2 == [loaded.w EXCEPT !.modules[module_index + 1] = started.module]
         IN IF ~loaded.ok
            THEN [w EXCEPT !.last = Directive("execute", NoName, bytes, NoIndex,
                                              "while instntiation")]
            ELSE IF bytes.start # "none"
            THEN [w2 EXCEPT !.last = Directive("execute", NoName, bytes, module_index,
                                               IF started.trap
                                               THEN "Failed to exec start func"
                                               ELSE "None")]
            ELSE [loaded.w EXCEPT !.last = Directive("execute", NoName, bytes,
                                                     module_index, "None")]

\* WastContext::get_instance(module_id)
GetInstance(w, name) ==
    IF name = NoName THEN w.current ELSE w.module_index_by_name[name]

\* WastContext::new: an empty store, no current module, no names
WastNew ==
    [modules |-> << >>, names |-> [n \in Names |-> NoIndex],
     module_index_by_name |-> [n \in Names |-> NoIndex], current |-> NoIndex,
     last |-> Directive("none", NoName,
                        [valid |-> TRUE, links |-> TRUE, start |-> "none"],
                        NoIndex, "None")]

\* the most values an invocation returns or an assert_return expects
MaxValues == 2

\* the values an invocation returns (WasmValue)
WastValues == {[ty |-> "I32", val |-> 0], [ty |-> "I32", val |-> 1],
               [ty |-> "I64", val |-> 0]}

\* the expectations of assert_return (wast::AssertExpression)
AssertExpressions == {[ty |-> "I32", val |-> 0], [ty |-> "I32", val |-> 1],
                      [ty |-> "V128", val |-> 0]}

\* val_matches(actual, expected): Ok(true), Ok(false) or the error it bails with
ValMatches(actual, expected) ==
    CASE actual.ty = "I32" /\ expected.ty = "I32" ->
            IF actual.val = expected.val THEN "true" ELSE "false"
      [] expected.ty = "V128" -> "V128 is not supported yet"
      [] OTHER -> "unexpected comparing"

\* the loop of the AssertReturn arm over values.iter().zip(results): "None"
\* when it runs to its end, else the error run_buffer returns
RECURSIVE AssertReturnZip(_, _)
AssertReturnZip(values, results) ==
    IF values = << >> \/ results = << >> THEN "None"
    ELSE LET m == ValMatches(Head(values), Head(results))
         IN IF m = "true" THEN AssertReturnZip(Tail(values), Tail(results))
            ELSE IF m = "false" THEN "expected"
            ELSE m

\* what perform_execute answers: values, a trap of the invocation, or an
\* error of the harness
Executions ==
    [kind : {"values"}, values : UNION {[1 .. n -> WastValues] : n \in 0 .. MaxValues}]
        \cup {[kind |-> "trap", values |-> << >>], [kind |-> "error", values |-> << >>]}

\* the AssertReturn arm of run_buffer; a trap or an error of the execution panics
AssertReturn(w, exec, results) ==
    [w EXCEPT !.last =
        [kind |-> "assert_return", name |-> NoName, bytes |-> w.last.bytes,
         index |-> NoIndex, exec |-> exec, results |-> results,
         error |-> IF exec.kind = "values"
                   THEN AssertReturnZip(exec.values, results)
                   ELSE "panic"]]

\* ---- the debugger's source-level stepping (commands/thread.rs) ----

\* the line infos of the source map, and the answer for a pc it does not map
LineInfos ==
    {[filepath |-> f, line |-> l, column |-> c] :
        f \in {"f.c", "g.c"}, l \in {1, 2}, c \in {1}}
    \cup {[filepath |-> "f.c", line |-> 1, column |-> 2]}

NoLine == [filepath |-> "", line |-> 0, column |-> 0]

\* the deepest call stack of the debuggee, and the most instruction-level
\* steps of one command
MaxDepth == 2

MaxSteps == 3

\* mutant of SameLine: only the line numbers are compared
SameLineNumber(a, b) == a.line = b.line

\* the loop condition of step-in / step-over: same file and same line
SameLine(a, b) == a.filepath = b.filepath /\ a.line = b.line

\* next_line_info(debugger, sourcemap): fails without a line info for the pc
NextLineInfo(th) == [ok |-> th.line # NoLine, line_info |-> th.line]

\* the frame depths debugger.step(style) can end at from depth d: InstIn is
\* one execute_step, InstOver runs until the depth is at most d again
StepDepths(style, d) ==
    IF style = "InstIn" THEN {d - 1, d, d + 1} \cap (0 .. MaxDepth)
    ELSE 0 .. d

\* no command has run; the debuggee stands at depth d on a pc with line info l
ThreadAt(d, l) ==
    [phase |-> "idle", style |-> "InstIn", depth |-> d, line |-> l,
     initial_line_info |-> NoLine, steps |-> << >>, lookups |-> 0,
     visited |-> << >>, error |-> "None", displayed |-> NoLine]

\* `thread step-in` / `thread step-over` up to the loop: the style, and the
\* initial line info (`?` ends the command with the error)
StepBegin(th, style) ==
    LET start == [ThreadAt(th.depth, th.line) EXCEPT !.style = style, !.lookups = 1]
        initial_line_info == NextLineInfo(th)
    IN IF ~initial_line_info.ok
       THEN [start EXCEPT !.phase = "error", !.error = "next_line_info"]
       ELSE [start EXCEPT !.phase = "stepping",
                          !.initial_line_info = initial_line_info.line_info]

\* one turn of the loop: debugger.step(style)?, next_line_info(..)?, and the
\* condition; after the loop the line info is looked up again and displayed.
\* stepped: whether the step succeeded; d, l: where it left the debuggee
StepTurn(th, stepped, d, l) ==
    LET tried == [th EXCEPT !.steps = Append(@, th.style)]
        after == [tried EXCEPT !.depth = d, !.line = l, !.lookups = @ + 1]
        line_info == NextLineInfo(after)
        seen == [after EXCEPT !.visited = Append(@, line_info.line_info)]
    IN IF ~stepped THEN [tried EXCEPT !.phase = "error", !.error = "step"]
       ELSE IF ~line_info.ok
       THEN [after EXCEPT !.phase = "error", !.error = "next_line_info"]
       ELSE IF SameLine(th.initial_line_info, line_info.line_info) THEN seen
       ELSE [seen EXCEPT !.phase = "done", !.lookups = @ + 1,
                         !.displayed = NextLineInfo(after).line_info]

\* ---- the debugger server (crates/debugger-server) ----

\* the connections a client opens, the most messages that wait in a request
\* channel, and the most polls of the REPL counted while a request waits
MaxConns == 2

MaxMessages == 1

MaxPolls == 2

Conns == 1 .. MaxConns

\* the messages of the socket: the requests of the envelope, and a message
\* that deserialize_request rejects
Messages == {"Version", "Init", "CallExported", "Import", "Garbage"}

\* a connection nobody has opened yet. The channel holds "Some" for a
\* message of the socket and "None" for the end mark; polls counts the
\* run_step calls of the REPL loop made while a message waited
NoConnection ==
    [call |-> "none", thread |-> "none", connection_finished |-> FALSE,
     request_tx |-> FALSE, channel |-> << >>, polls |-> 0]

\* nothing handled yet
NotHandled ==
    [msg |-> "none", fails |-> FALSE, sink_ok |-> TRUE, responses |-> << >>,
     then |-> "none"]

\* the server with no connection; no_interactive is the environment variable
\* WASMINSPECT_SERVER_NO_INTERACTIVE; handled is the message handled last,
\* with the responses sent for it and the state of the thread after it
ServerNew(no_interactive) ==
    [lock |-> 0, no_interactive |-> no_interactive,
     conns |-> [c \in Conns |-> NoConnection], handled |-> NotHandled]

\* mutant of LockFree: the lock is never waited for
LockAlwaysFree(s) == TRUE

\* CONNECTION_LOCK.lock().await returns: nobody holds the lock
LockFree(s) == s.lock = 0

\* the receiving end of the request channel exists: it is owned by the
\* debugger thread
ReceiverAlive(conn) == conn.thread \in {"repl", "serving", "stopped"}

\* a message of the socket waits in the channel
RequestWaiting(conn) == \E i \in 1 .. Len(conn.channel) : conn.channel[i] = "Some"

\* the debugger thread is over: the receiving end of the channel is dropped
\* with what the channel holds
ThreadOver(conn, how) == [conn EXCEPT !.thread = how, !.channel = << >>, !.polls = 0]

\* establish_connection returns or unwinds: the guard is dropped, and with
\* the call's locals the sending end of the channel
Returns(s, c) ==
    [s EXCEPT !.lock = 0, !.conns[c].call = "returned",
              !.conns[c].request_tx = FALSE]

\* establish_connection gets the lock and _establish_connection starts: the
\* channel, connection_finished, and the debugger thread, which begins with
\* the REPL unless no_interactive is set
Establish(s, c) ==
    [s EXCEPT !.lock = c,
              !.conns[c] = [@ EXCEPT !.call = "reading", !.request_tx = TRUE,
                                     !.thread = IF s.no_interactive THEN "serving"
                                                ELSE "repl"]]

\* the socket reader gets a message: request_tx.send(Some(msg))?
ForwardMessage(s, c) ==
    IF ~ReceiverAlive(s.conns[c]) THEN Returns(s, c)
    ELSE [s EXCEPT !.conns[c].channel = Append(@, "Some")]

\* the socket reader gets an error: request_tx.send(None).unwrap() and
\* return Err(e), the debugger thread neither told to finish nor joined
ReadError(s, c) ==
    IF ~ReceiverAlive(s.conns[c]) THEN Returns(s, c)
    ELSE Returns([s EXCEPT !.conns[c].channel = Append(@, "None")], c)

\* the socket is closed: the epilogue up to handle.join()
Epilogue(s, c) ==
    LET finished == [s EXCEPT !.conns[c].connection_finished = TRUE]
    IN IF ~ReceiverAlive(s.conns[c]) THEN Returns(finished, c)
       ELSE [finished EXCEPT !.conns[c].channel = Append(@, "None"),
                             !.conns[c].call = "joining"]

\* one turn of the REPL loop of the debugger thread: connection_finished is
\* looked at, then run_step(.., Some(step_timeout)) is called, whose result
\* is Ok(None) (the timeout, or a command without a result), Exit, an error,
\* or another result, which is the unreachable!() of the loop
ReplTurn(conn, run_step) ==
    IF conn.connection_finished \/ run_step \in {"Exit", "Err"}
    THEN [conn EXCEPT !.thread = "serving", !.polls = 0]
    ELSE IF run_step = "ProcessFinish" THEN ThreadOver(conn, "panicked")
    ELSE [conn EXCEPT !.polls = IF RequestWaiting(conn) /\ @ < MaxPolls THEN @ + 1
                                ELSE @]

\* debugger_proxy::handle_request: the response to a request; fails says
\* whether load_module, lookup_func or execute_func returns an error, stops
\* whether execute_func returns RunResult::Breakpoint. "panic" is the
\* unimplemented!() of Import; "stopped" is the handler in process.run_loop
HandleRequest(req, fails, stops) ==
    CASE req = "Import" -> "panic"
      [] req = "Version" -> "Version"
      [] req = "Init" -> IF fails THEN "Error" ELSE "Init"
      [] req = "CallExported" -> IF fails THEN "Error"
                                 ELSE IF stops THEN "stopped"
                                 ELSE "CallResult"

\* handle_incoming_message: the response to a message
HandleIncomingMessage(msg, fails, stops) ==
    IF msg = "Garbage" THEN "Error" ELSE HandleRequest(msg, fails, stops)

\* the response is sent to the socket's sink: its failure (sink_ok false)
\* ends the receive loop
Respond(s, c, conn, took, response, sink_ok) ==
    IF ~sink_ok
    THEN [s EXCEPT !.conns[c] = ThreadOver(conn, "ended"),
                   !.handled = [took EXCEPT !.sink_ok = FALSE]]
    ELSE [s EXCEPT !.conns[c] = [conn EXCEPT !.thread = "serving"],
                   !.handled = [took EXCEPT !.responses = << response >>,
                                            !.then = "serving"]]

\* one turn of the receive loop of debugger thread c with a message in the
\* channel: None ends the loop; msg, the message the client sent, is handled
\* and the response sent to the socket's sink; a CallExported that stops at
\* a breakpoint leaves the handler in process.run_loop
ReceiveTurn(s, c, msg, fails, stops, sink_ok) ==
    LET conn == s.conns[c]
        rest == [conn EXCEPT !.channel = Tail(@)]
        response == HandleIncomingMessage(msg, fails, stops)
        took == [NotHandled EXCEPT !.msg = msg, !.fails = fails, !.then = "ended"]
    IN IF Head(conn.channel) = "None"
       THEN [s EXCEPT !.conns[c] = ThreadOver(conn, "ended")]
       ELSE IF response = "panic"
       THEN [s EXCEPT !.conns[c] = ThreadOver(conn, "panicked"),
                      !.handled = [took EXCEPT !.then = "panicked"]]
       ELSE IF response = "stopped"
       THEN [s EXCEPT !.conns[c] = [rest EXCEPT !.thread = "stopped"],
                      !.handled = [took EXCEPT !.then = "stopped"]]
       ELSE Respond(s, c, rest, took, response, sink_ok)

\* the handler of a CallExported stopped at a breakpoint comes to its
\* response: CallResult after ProcessFinish, Error after an error of
\* process.run_loop or of `process continue`
RunLoopOver(s, c, response, sink_ok) ==
    Respond(s, c, s.conns[c],
            [NotHandled EXCEPT !.msg = "CallExported", !.fails = response = "Error",
                               !.then = "ended"],
            response, sink_ok)

\* ---- one debugger thread handling requests ----

\* the requests a debugger thread handles before the connection ends
MaxRequests == 3

\* the dispatches of `process continue` one command at the console leads to
MaxContinues == 2

\* no request handled yet. loaded: the store before the request; stopped:
\* execute_func returned RunResult::Breakpoint; results: the results the
\* handler's loop has matched since the last console command; continued: the
\* `process continue` it has dispatched since; finish: what finished the
\* call, with its values
NoRequest ==
    [req |-> "none", fails |-> FALSE, loaded |-> << >>, stopped |-> FALSE,
     results |-> << >>, continued |-> 0, finish |-> "none", values |-> << >>,
     responses |-> << >>]

\* start_debugger(None, vec![], vec![]): an empty store; requests counts
\* the requests handled, and a module in the store is the number of the
\* Init request that loaded it
ProxyNew ==
    [store |-> << >>, requests |-> 0, process |-> "idle", handled |-> NoRequest]

\* the values a finished call returns
FinishValues == {<< >>} \cup {<< v >> : v \in WastValues}

\* from_vm_wasm_value
FromVmWasmValue(value) == [tag |-> value.ty, value |-> value.val]

\* debugger.reset_store(): the store is discarded
ResetStore(modules) == << >>

\* debugger.load_module(bytes) for Init request n: a failure leaves the store
\* as it is
DebuggerLoadModule(modules, n, fails) ==
    IF fails THEN modules ELSE Append(modules, n)

\* mutant of InitStore: the store is not reset
InitStoreKeeps(modules, n, fails) == DebuggerLoadModule(modules, n, fails)

\* the Init arm of _handle_request: reset_store, then load_module
InitStore(modules, n, fails) == DebuggerLoadModule(ResetStore(modules), n, fails)

\* handle_request returns the response: a TextResponse of the given kind,
\* CallResult with the values converted
Responded(p, took, kind, values) ==
    [p EXCEPT !.process = "idle",
              !.handled = [took EXCEPT !.responses =
                  << [kind |-> kind,
                      values |-> [i \in DOMAIN values |-> FromVmWasmValue(values[i])]] >>]]

\* handle_request(req, process, context) up to its return, its panic, or
\* the console read of process.run_loop; values are the values of
\* RunResult::Finish
HandleRequestIn(p, req, fails, stops, values) ==
    LET response == HandleRequest(req, fails, stops)
        n == p.requests + 1
        took == [NoRequest EXCEPT !.req = req, !.fails = fails, !.loaded = p.store]
        q == [p EXCEPT !.requests = n,
                       !.store = IF req = "Init" THEN InitStore(@, n, fails) ELSE @]
    IN CASE response = "panic" -> [q EXCEPT !.process = "panicked", !.handled = took]
         [] response = "stopped" ->
                [q EXCEPT !.process = "stopped",
                          !.handled = [took EXCEPT !.stopped = TRUE]]
         [] response = "CallResult" ->
                Responded(q, [took EXCEPT !.finish = "Finish", !.values = values],
                          "CallResult", values)
         [] OTHER -> Responded(q, took, response, << >>)

\* mutant of ContinueLoop: Exit ends the call
ContinueLoopExitEnds(res, continues, took) ==
    LET seen == [took EXCEPT !.results = Append(@, res)]
    IN CASE res \in {"ProcessFinish", "Exit"} ->
                [response |-> "CallResult", took |-> [seen EXCEPT !.finish = res]]
         [] res = "Err" -> [response |-> "Error", took |-> seen]
         [] res = "None" -> [response |-> "none", took |-> seen]

\* the loop of the Breakpoint arm of _handle_request over the result of
\* process.run_loop: ProcessFinish ends it with CallResult, an error with
\* Error (the `?`), and Exit dispatches `process continue`, whose results are
\* continues: Some(result) goes round the loop, None calls run_loop again
RECURSIVE ContinueLoop(_, _, _)
ContinueLoop(res, continues, took) ==
    LET seen == [took EXCEPT !.results = Append(@, res)]
    IN CASE res = "ProcessFinish" ->
                [response |-> "CallResult",
                 took |-> [seen EXCEPT !.finish = "ProcessFinish"]]
         [] res = "Err" -> [response |-> "Error", took |-> seen]
         [] res = "None" -> [response |-> "none", took |-> seen]
         [] res = "Exit" ->
                ContinueLoop(Head(continues), Tail(continues),
                             [seen EXCEPT !.continued = @ + 1])

\* a command at the console makes process.run_loop return run_loop to the
\* handler stopped at a breakpoint; values are the values of ProcessFinish
RunLoopTurn(p, run_loop, continues, values) ==
    LET over == ContinueLoop(run_loop, continues,
                             [p.handled EXCEPT !.results = << >>, !.continued = 0])
    IN CASE over.response = "none" -> [p EXCEPT !.handled = over.took]
         [] over.response = "CallResult" ->
                Responded(p, [over.took EXCEPT !.values = values], "CallResult", values)
         [] OTHER -> Responded(p, over.took, over.response, << >>)

\* what the dispatches of `process continue` after one Exit return: Exit
\* again and again, then another result
ContinueOutcomes ==
    {[i \in 1 .. n |-> IF i < n THEN "Exit" ELSE last_one] :
        n \in 1 .. MaxContinues, last_one \in {"ProcessFinish", "None", "Err"}}

AroundInit ==
    /\ wast = WastNew
    /\ thread = ThreadAt(1, NoLine)
    /\ server = ServerNew(FALSE)
    /\ proxy = ProxyNew

\* no pop_result call yet
NotReturned == [called |-> FALSE, return_ty |-> << >>, from |-> << >>,
                out |-> [err |-> "None", vals |-> << >>, stack |-> << >>]]

Init ==
    /\ store = TheStore
    /\ config \in [memory64 : BOOLEAN]
    /\ \E f \in {a \in 0 .. Len(store.funcs) - 1 : ~FuncGlobal(a).native} :
        \E args \in [1 .. FuncGlobal(f).params -> ArgValues] :
            /\ pc = [module |-> FuncGlobal(f).module, func |-> f, inst |-> 0]
            /\ stack = PushLabel(SetFrame(<< >>,
                                          NewFromFunc(f, FuncGlobal(f),
                                                      [i \in DOMAIN args |-> Val(args[i])],
                                                      << >>)),
                                 LabelReturn(FuncGlobal(f).returns))
            /\ result = "None"
            /\ last = [pc |-> pc, stack |-> stack, mems |-> store.mems,
                       tables |-> store.tables, hook |-> "None",
                       inst |-> NoInst, raw |-> "None", before |-> "None",
                       host |-> << >>, stored |-> << >>, entered |-> << >>]
    /\ returned = NotReturned
    /\ calls = [active |-> << >>, finished |-> << >>]
    /\ AroundInit

\* what a call of execute_step leaves: the executor, the memories and tables,
\* the value returned, and in last the executor, the memories and the tables
\* before the call, the pre-hook's answer ("None" when it was not asked), the instruction
\* fetched, raw (the instruction's own result, "None" when it was not
\* dispatched), before, the previous call's return, and the calls it made:
\* host, of a host body, stored, of after_store, entered, of invoke_func
\* the history of calls after a step with outcome r: a step that enters a
\* defined function adds the executor at the invocation (for call_indirect
\* the table index is off the stack by then), a step that leaves a called
\* function takes its entry off
Recorded(r) ==
    IF IsTrap(r.res) THEN [calls EXCEPT !.finished = << >>]
    ELSE IF NumFrames(r.stack) = NumFrames(stack) + 1
    THEN [active |-> Append(calls.active,
                            [pc |-> pc,
                             stack |-> IF InstAt(CurrentFuncInsts(pc), pc.inst).op
                                          = "CallIndirect"
                                       THEN Front(stack) ELSE stack,
                             callee |-> r.pc.func]),
          finished |-> << >>]
    ELSE IF NumFrames(r.stack) = NumFrames(stack) - 1 /\ calls.active # << >>
    THEN [active |-> Front(calls.active),
          finished |-> << calls.active[Len(calls.active)] >>]
    ELSE [calls EXCEPT !.finished = << >>]

Returned(r, hook) ==
    /\ pc' = r.pc
    /\ stack' = r.stack
    /\ result' = r.res
    /\ store' = [store EXCEPT !.mems = r.mems, !.tables = r.tables,
                              !.elems = r.elems, !.datas = r.datas]
    /\ last' = [pc |-> pc, stack |-> stack, mems |-> store.mems,
                tables |-> store.tables,
                host |-> r.host, stored |-> r.stored, entered |-> r.entered,
                hook |-> IF pc.inst < Len(CurrentFuncInsts(pc)) THEN hook ELSE "None",
                inst |-> IF pc.inst < Len(CurrentFuncInsts(pc))
                         THEN InstAt(CurrentFuncInsts(pc), pc.inst)
                         ELSE NoInst,
                raw |-> r.raw, before |-> result]
    /\ calls' = Recorded(r)
    /\ UNCHANGED << config, returned, around >>

\* one call of execute_step; a trap ends the use of the executor.  An
\* instruction calls at most one of invoke_func and after_store: signal is the
\* answer of the one it calls
ExecuteStep ==
    /\ ~IsTrap(result)
    /\ \E hook \in {"Next", "Breakpoint", "Trap"}, signal \in {"Next", "Breakpoint"},
          hostok \in BOOLEAN :
           Returned(ExecuteStepResult(pc, stack, hook, signal, signal, hostok), hook)

\* the host retrieves the results after End (Executor::pop_result), with
\* return types of its choice
PopResultCall ==
    /\ result = "End"
    /\ \E return_ty \in ReturnTypes :
        LET out == PopResult(stack, return_ty)
        IN /\ stack' = out.stack
           /\ returned' = [called |-> TRUE, return_ty |-> return_ty,
                           from |-> stack, out |-> out]
           /\ last' = [last EXCEPT !.pc = pc, !.stack = out.stack,
                                   !.mems = store.mems, !.tables = store.tables,
                                   !.hook = "None", !.inst = NoInst,
                                   !.raw = "None", !.before = result,
                                   !.host = << >>, !.stored = << >>,
                                   !.entered = << >>]
    /\ UNCHANGED << store, config, pc, result, calls, around >>

Next == ExecuteStep \/ PopResultCall

Spec == Init /\ [][Next]_vars

\* ---- the wast harness running directives ----

\* no executor runs: nothing is loaded, nothing was stepped
ExecutorIdle ==
    /\ store = [funcs |-> << >>, modules |-> << >>, mems |-> << >>,
                tables |-> << >>, elems |-> << >>, datas |-> << >>]
    /\ config = [memory64 |-> FALSE]
    /\ pc = [module |-> 0, func |-> 0, inst |-> 0]
    /\ stack = << >>
    /\ result = "None"
    /\ last = [raw |-> "None"]
    /\ returned = NotReturned
    /\ calls = [active |-> << >>, finished |-> << >>]

InitWast == ExecutorIdle /\ AroundInit

\* ---- the debugger running step-in / step-over commands ----

InitThread ==
    /\ ExecutorIdle
    /\ wast = WastNew
    /\ server = ServerNew(FALSE)
    /\ proxy = ProxyNew
    /\ \E d \in 1 .. MaxDepth, l \in LineInfos \cup {NoLine} : thread = ThreadAt(d, l)

\* the user enters `thread step-in` or `thread step-over`
StepCommand ==
    /\ thread.phase # "stepping"
    /\ \E style \in {"InstIn", "InstOver"} : thread' = StepBegin(thread, style)
    /\ UNCHANGED << executor, wast, server, proxy >>

\* the command's loop takes a turn: the step fails (a trap, or no debuggee
\* left), or it ends the debuggee (depth 0, no line info), or it leaves the
\* debuggee on some pc the source map may map
StepLoop ==
    /\ thread.phase = "stepping"
    /\ Len(thread.steps) < MaxSteps
    /\ \/ thread' = StepTurn(thread, FALSE, thread.depth, thread.line)
       \/ \E d \in StepDepths(thread.style, thread.depth) :
            \E l \in IF d = 0 THEN {NoLine} ELSE LineInfos \cup {NoLine} :
                thread' = StepTurn(thread, TRUE, d, l)
    /\ UNCHANGED << executor, wast, server, proxy >>

NextThread == StepCommand \/ StepLoop

SpecThread == InitThread /\ [][NextThread]_vars

\* ---- the debugger server and its clients ----

InitServer ==
    /\ ExecutorIdle
    /\ wast = WastNew
    /\ thread = ThreadAt(1, NoLine)
    /\ proxy = ProxyNew
    /\ \E no_interactive \in BOOLEAN : server = ServerNew(no_interactive)

\* a client's connection is upgraded: establish_connection is called and
\* waits for the lock
Upgraded ==
    /\ \E c \in Conns :
        /\ server.conns[c].call = "none"
        /\ server' = [server EXCEPT !.conns[c].call = "waiting"]
    /\ UNCHANGED << executor, wast, thread, proxy >>

\* a waiting establish_connection gets the lock
Locked ==
    /\ \E c \in Conns :
        /\ server.conns[c].call = "waiting"
        /\ LockFree(server)
        /\ server' = Establish(server, c)
    /\ UNCHANGED << executor, wast, thread, proxy >>

\* the socket reader: the client sends a message, the read fails, or the
\* socket is closed
SocketMessage ==
    /\ \E c \in Conns :
        /\ server.conns[c].call = "reading"
        /\ Len(server.conns[c].channel) < MaxMessages
        /\ server' = ForwardMessage(server, c)
    /\ UNCHANGED << executor, wast, thread, proxy >>

SocketError ==
    /\ \E c \in Conns :
        /\ server.conns[c].call = "reading"
        /\ server' = ReadError(server, c)
    /\ UNCHANGED << executor, wast, thread, proxy >>

SocketClosed ==
    /\ \E c \in Conns :
        /\ server.conns[c].call = "reading"
        /\ server' = Epilogue(server, c)
    /\ UNCHANGED << executor, wast, thread, proxy >>

\* handle.join() returns (or unwinds, the thread having panicked)
Joined ==
    /\ \E c \in Conns :
        /\ server.conns[c].call = "joining"
        /\ server.conns[c].thread \in {"ended", "panicked"}
        /\ server' = Returns(server, c)
    /\ UNCHANGED << executor, wast, thread, proxy >>

\* the debugger thread in its REPL loop
ReplStep ==
    /\ \E c \in Conns, run_step \in {"None", "Exit", "Err", "ProcessFinish"} :
        /\ server.conns[c].thread = "repl"
        /\ server' = [server EXCEPT !.conns[c] = ReplTurn(@, run_step)]
    /\ UNCHANGED << executor, wast, thread, proxy >>

\* the debugger thread in its receive loop: request_rx.recv() returns a
\* message, or an error once the channel is empty and its sender dropped;
\* the sink can fail once the socket is no longer read
Receive ==
    /\ \E c \in Conns, msg \in Messages, fails \in BOOLEAN, sink_ok \in BOOLEAN,
          stops \in BOOLEAN :
        /\ server.conns[c].thread = "serving"
        /\ sink_ok \/ server.conns[c].call # "reading"
        /\ stops => msg = "CallExported" /\ ~fails /\ sink_ok
        /\ IF server.conns[c].channel # << >>
           THEN server' = ReceiveTurn(server, c, msg, fails, stops, sink_ok)
           ELSE /\ ~server.conns[c].request_tx
                /\ server' = [server EXCEPT !.conns[c] = ThreadOver(@, "ended")]
    /\ UNCHANGED << executor, wast, thread, proxy >>

\* the handler of a CallExported stopped at a breakpoint: commands entered
\* at the console make the process finish or fail
Console ==
    /\ \E c \in Conns, response \in {"CallResult", "Error"}, sink_ok \in BOOLEAN :
        /\ server.conns[c].thread = "stopped"
        /\ sink_ok \/ server.conns[c].call # "reading"
        /\ server' = RunLoopOver(server, c, response, sink_ok)
    /\ UNCHANGED << executor, wast, thread, proxy >>

NextServer ==
    \/ Upgraded \/ Locked
    \/ SocketMessage \/ SocketError \/ SocketClosed \/ Joined
    \/ ReplStep \/ Receive \/ Console

SpecServer == InitServer /\ [][NextServer]_vars

\* the debugger thread is an OS thread and establish_connection a task of
\* the runtime: both go on when they can. Nothing makes a client send or
\* close, and nothing makes anybody type at the server's console
SpecServerFair ==
    SpecServer /\ WF_vars(ReplStep) /\ WF_vars(Receive) /\ WF_vars(Joined)

\* ---- one debugger thread and its requests ----

InitProxy ==
    /\ ExecutorIdle
    /\ wast = WastNew
    /\ thread = ThreadAt(1, NoLine)
    /\ server = ServerNew(TRUE)
    /\ proxy = ProxyNew

\* the receive loop hands the next request to handle_request
Request ==
    /\ \E req \in Messages \ {"Garbage"}, fails \in BOOLEAN, stops \in BOOLEAN,
          values \in FinishValues :
        /\ proxy.process = "idle"
        /\ proxy.requests < MaxRequests
        /\ stops => req = "CallExported" /\ ~fails
        /\ values # << >> => req = "CallExported" /\ ~fails /\ ~stops
        /\ proxy' = HandleRequestIn(proxy, req, fails, stops, values)
    /\ UNCHANGED << executor, wast, thread, server >>

\* a command is entered at the console while the handler is stopped
RunLoop ==
    /\ \E run_loop \in {"ProcessFinish", "Exit", "Err"},
          continues \in ContinueOutcomes \cup {<< >>}, values \in FinishValues :
        /\ proxy.process = "stopped"
        /\ run_loop = "Exit" <=> continues # << >>
        /\ LET turn == RunLoopTurn(proxy, run_loop, continues, values)
           IN /\ values # << >> => turn.handled.finish = "ProcessFinish"
              /\ proxy' = turn
    /\ UNCHANGED << executor, wast, thread, server >>

NextProxy == Request \/ RunLoop

SpecProxy == InitProxy /\ [][NextProxy]_vars

\* run_buffer goes on to the next directive: a failed `module` directive
\* ends it with the error, an assert_trap goes on only after a trap
GoesOn ==
    CASE wast.last.kind = "module" -> wast.last.error = "None"
      [] wast.last.kind = "execute" ->
            wast.last.error \in {"while instntiation", "Failed to exec start func"}
      [] wast.last.kind = "assert_return" -> wast.last.error = "None"
      [] OTHER -> TRUE

\* a `module` directive
ModuleDirective ==
    /\ GoesOn
    /\ Len(wast.modules) < MaxModules
    /\ \E name \in Names \cup {NoName}, bytes \in WastModules :
           wast' = WastModule(wast, name, bytes)
    /\ UNCHANGED << executor, thread, server, proxy >>

\* a directive that executes a module (assert_trap of a module)
ExecuteModuleDirective ==
    /\ GoesOn
    /\ Len(wast.modules) < MaxModules
    /\ \E bytes \in WastModules : wast' = PerformExecuteModule(wast, bytes)
    /\ UNCHANGED << executor, thread, server, proxy >>

NextWast == ModuleDirective \/ ExecuteModuleDirective

SpecWast == InitWast /\ [][NextWast]_vars

\* ---- the wast harness running assert_return directives ----

\* an `assert_return` directive
AssertReturnDirective ==
    /\ GoesOn
    /\ \E exec \in Executions :
        \E results \in UNION {[1 .. n -> AssertExpressions] : n \in 0 .. MaxValues} :
           wast' = AssertReturn(wast, exec, results)
    /\ UNCHANGED << executor, thread, server, proxy >>

NextAssert == AssertReturnDirective

SpecAssert == InitWast /\ [][NextAssert]_vars

----------------------------------------------------------------------------
(* Properties.  They read the last call of execute_step: last is the       *)
(* executor before the call, (pc, stack, result) what the call left.       *)

\* the last call dispatched its instruction
Executed == last.raw # "None"

\* the last call started with an activation on the stack (End not yet returned)
WasLive == ~IsOverTopLevel(last.stack)

NumLabels(s) == Cardinality({i \in 1 .. Len(s) : s[i].kind = "Label"})


\* the top n entries of a stack
TopN(s, n) == SubSeq(s, Len(s) - n + 1, Len(s))

\* C1: a step taken while an activation is on the stack returns End exactly
\* when it leaves no activation (it popped the initial frame and its Return
\* label, by the final end, by return or by a br to the Return label); a step
\* that leaves an activation returns Next or Breakpoint.
C1_EndIffInitialFramePopped ==
    (Executed /\ WasLive /\ result \in Signals) =>
        /\ (result = "End") <=> IsOverTopLevel(stack)
        /\ IsOverTopLevel(stack) => NumLabels(stack) = 0

\* C1 witness: End returned for a br_if that targets the Return label
C1_Witness ==
    /\ WasLive /\ result = "End" /\ last.inst.op = "BrIf" /\ NumLabels(last.stack) = 3

\* C1 further cases: End by `return` and by the final `end`
C1_WitnessReturn == WasLive /\ result = "End" /\ last.inst.op = "Return"

C1_WitnessEnd == WasLive /\ result = "End" /\ last.inst.op = "End"

C2_WitnessTrap ==
    last.hook = "Breakpoint" /\ last.inst.op = "Unreachable" /\ result = "Unreachable"

\* C3 as stated: once End has been returned, a later call executes nothing:
\* stack and pc stay as they were and it returns neither Next nor Breakpoint.
C3_ReturnedIsTerminal ==
    last.before = "End" =>
        /\ pc = last.pc
        /\ stack = last.stack
        /\ result \notin {"Next", "Breakpoint"}

\* C4 as stated: a step whose instruction raised a trap returns that trap,
\* never a Signal.
C4_TrapIsReturned == IsTrap(last.raw) => result = last.raw

----------------------------------------------------------------------------
(* The block structure of a function body, read off the instruction vector *)
(* by counting: the properties below compare the executor against it.      *)

IsOpener(insts, i) == InstAt(insts, i).op \in {"Block", "Loop", "If"}

OpenersIn(insts, a, b) == Cardinality({k \in a .. b : IsOpener(insts, k)})

EndsIn(insts, a, b) == Cardinality({k \in a .. b : InstAt(insts, k).op = "End"})

\* the `end` at j balances the block/loop/if opened at o
Closes(insts, o, j) ==
    InstAt(insts, j).op = "End" /\ OpenersIn(insts, o, j) = EndsIn(insts, o, j)

\* the `end` that matches the block/loop/if at o: the first one that balances it
MatchingEnd(insts, o) ==
    CHOOSE j \in o + 1 .. Len(insts) - 1 :
        Closes(insts, o, j) /\ \A k \in o + 1 .. j - 1 : ~Closes(insts, o, k)

\* the block/loop/if instructions whose body holds instruction i
Enclosing(insts, i) ==
    {o \in 0 .. i - 1 : IsOpener(insts, o) /\ MatchingEnd(insts, o) > i}

\* the n-th enclosing block/loop/if of instruction i, 0 = innermost
NthEnclosing(insts, i, n) ==
    CHOOSE o \in Enclosing(insts, i) :
        Cardinality({q \in Enclosing(insts, i) : q > o}) = n

\* the `else` that belongs to the `if` at o (none or one)
ElseOf(insts, o) ==
    {e \in o + 1 .. MatchingEnd(insts, o) - 1 :
        /\ InstAt(insts, e).op = "Else"
        /\ OpenersIn(insts, o + 1, e) = EndsIn(insts, o + 1, e)}

\* (params, results) of a block type
BlockParams(ty) == IF ty.k = "Func" THEN Types[ty.id + 1].params ELSE 0

BlockResults(ty) ==
    CASE ty.k = "Empty" -> 0
      [] ty.k = "Val" -> 1
      [] OTHER -> Types[ty.id + 1].returns

\* position on the stack of the n-th label from the top, 0 = innermost
NthLabelPos(s, n) ==
    CHOOSE i \in 1 .. Len(s) :
        /\ s[i].kind = "Label"
        /\ Cardinality({j \in i + 1 .. Len(s) : s[j].kind = "Label"}) = n

\* the last call was made with an activation on the stack and dispatched op
Did(ops) == WasLive /\ Executed /\ last.inst.op \in ops

\* the value on top of the stack before the last call
TopVal == last.stack[Len(last.stack)].val

\* the last call executed br n, or br_if n with a non-zero condition
DidBr == Did({"Br"}) \/ (Did({"BrIf"}) /\ TopVal # 0)

\* the stack the branch of the last call started from (condition/index popped)
BrBase == IF last.inst.op = "Br" THEN last.stack ELSE Front(last.stack)

LastInsts == CurrentFuncInsts(last.pc)

\* C5: br n whose target label L is a Block or If label does not trap, removes
\* exactly n+1 labels and every operand between them, leaves the top L.arity
\* operands in order on what lay below L, and continues just after the `end`
\* matching L (the n-th enclosing block/if of the branch instruction).
C5_BrToBlockOrIf ==
    (DidBr /\ BrBase[NthLabelPos(BrBase, last.inst.relative_depth)].lk \in {"Block", "If"}) =>
        LET n == last.inst.relative_depth
            lp == NthLabelPos(BrBase, n)
        IN /\ ~IsTrap(result)
           /\ n < Cardinality(Enclosing(LastInsts, last.pc.inst))
           /\ InstAt(LastInsts, NthEnclosing(LastInsts, last.pc.inst, n)).op \in {"Block", "If"}
           /\ NumLabels(stack) = NumLabels(BrBase) - (n + 1)
           /\ stack = SubSeq(BrBase, 1, lp - 1) \o TopN(BrBase, BrBase[lp].arity)
           /\ pc = [last.pc EXCEPT !.inst =
                       MatchingEnd(LastInsts, NthEnclosing(LastInsts, last.pc.inst, n)) + 1]

\* C5 witness: br 2 out of block block block, two operands discarded, one kept
C5_Witness ==
    /\ DidBr /\ last.inst = Br(2) /\ last.pc.func = 0
    /\ Len(last.stack) = 8 /\ Len(stack) = 3 /\ stack[3].kind = "Value"
    /\ pc.inst = 12

\* C5 further case: br 1 with a block, a loop and an else between it and the end
C5_WitnessNested ==
    DidBr /\ last.inst = Br(1) /\ last.pc.func = 13 /\ pc.inst = 19

\* C6: block / loop / if of block type (p, r) pushes exactly one label just
\* below the top p operands and leaves those on top in order; the arity is r
\* for Block and If and p for Loop, whose start pc is the loop instruction.
C6_BlockPushesLabel ==
    Did({"Block", "Loop", "If"}) =>
        LET base == IF last.inst.op = "If" THEN Front(last.stack) ELSE last.stack
            p == BlockParams(last.inst.ty)
            r == BlockResults(last.inst.ty)
            label == CASE last.inst.op = "Block" -> LabelBlock(r)
                       [] last.inst.op = "If" -> LabelIf(r)
                       [] OTHER -> LabelLoop(last.pc.inst, p)
        IN /\ ~IsTrap(result)
           /\ \A i \in 1 .. p : base[Len(base) + 1 - i].kind = "Value"
           /\ stack = SubSeq(base, 1, Len(base) - p) \o << label >> \o TopN(base, p)

\* C6 witness: a loop of type (i32) -> (i32) entered with its parameter on top
C6_Witness ==
    /\ Did({"Loop"}) /\ last.inst.ty = FuncBlockType(0)
    /\ stack[Len(stack)].kind = "Value"
    /\ stack[Len(stack) - 1] = LabelLoop(5, 1)

\* C7: `if` pops the condition and pushes the If label; with a zero condition
\* the pc is just after the else of this if, or on the matching end when it
\* has none; with a non-zero condition the pc is the first then-instruction.
C7_IfSelectsBranch ==
    Did({"If"}) =>
        LET i == last.pc.inst
            base == Front(last.stack)
        IN /\ ~IsTrap(result)
           /\ last.stack[Len(last.stack)].kind = "Value"
           /\ NumLabels(stack) = NumLabels(last.stack) + 1
           /\ Len(stack) = Len(last.stack)
           /\ stack[NthLabelPos(stack, 0)].lk = "If"
           /\ pc.func = last.pc.func
           /\ TopVal # 0 => pc.inst = i + 1
           /\ (TopVal = 0 /\ ElseOf(LastInsts, i) # {}) => pc.inst - 1 \in ElseOf(LastInsts, i)
           /\ (TopVal = 0 /\ ElseOf(LastInsts, i) = {}) => pc.inst = MatchingEnd(LastInsts, i)

\* C7 witness: zero condition, the then-branch holds a nested if/else that is
\* passed over, the pc lands after the outer else
C7_Witness ==
    /\ Did({"If"}) /\ TopVal = 0 /\ last.pc.func = 2 /\ last.pc.inst = 2
    /\ pc.inst = 10

\* C7 further case: zero condition and no else, the pc lands on the matching end
C7_WitnessNoElse ==
    Did({"If"}) /\ TopVal = 0 /\ last.pc.func = 3 /\ last.pc.inst = 1 /\ pc.inst = 10

\* C8: `else` reached by the then-branch acts as br 0 on the If label: the label
\* is popped keeping its arity top operands and the pc is just after the `end`
\* matching that if, beyond every instruction of the else-branch.
C8_ElseLeavesIf ==
    Did({"Else"}) =>
        LET e == last.pc.inst
            lp == NthLabelPos(last.stack, 0)
            o == NthEnclosing(LastInsts, e, 0)
        IN /\ ~IsTrap(result)
           /\ last.stack[lp].lk = "If"
           /\ InstAt(LastInsts, o).op = "If" /\ e \in ElseOf(LastInsts, o)
           /\ stack = SubSeq(last.stack, 1, lp - 1) \o TopN(last.stack, last.stack[lp].arity)
           /\ pc = [last.pc EXCEPT !.inst = MatchingEnd(LastInsts, o) + 1]

\* C8 witness: the else of an if with one result, the result stays on top
C8_Witness ==
    /\ Did({"Else"}) /\ last.pc.func = 2 /\ last.pc.inst = 9
    /\ pc.inst = 14 /\ stack[Len(stack)].kind = "Value"
    /\ NumLabels(stack) = NumLabels(last.stack) - 1

\* the `end` at i closes no block/loop/if: it is the function's final end
IsFinalEnd(insts, i) ==
    \A o \in 0 .. i - 1 : IsOpener(insts, o) => MatchingEnd(insts, o) # i

\* the last call left the current function: by `return`, by a taken br whose
\* target is the Return label, or by the function's final `end`
DidLeaveFunction ==
    \/ Did({"Return"})
    \/ (DidBr /\ BrBase[NthLabelPos(BrBase, last.inst.relative_depth)].lk = "Return")
    \/ (Did({"End"}) /\ IsFinalEnd(LastInsts, last.pc.inst))

\* C9: return at any depth and br to the Return label have the effect of the
\* final end: everything of the current activation and the activation itself
\* are removed, the top result-arity operands are left in order on the
\* caller's stack, and the pc is the frame's saved return pc (without one,
\* for the initial frame, the step returns End).
C9_ReturnLikeFinalEnd ==
    DidLeaveFunction =>
        LET fi == CurrentFrameIndex(last.stack)
            frame == last.stack[fi].frame
            base == IF last.inst.op = "BrIf" THEN Front(last.stack) ELSE last.stack
        IN /\ ~IsTrap(result)
           /\ stack = SubSeq(last.stack, 1, fi - 1)
                        \o TopN(base, FuncGlobal(frame.exec_addr).returns)
           /\ \A i \in fi .. Len(stack) : stack[i].kind = "Value"
           /\ frame.ret_pc # << >> => (pc = frame.ret_pc[1] /\ result # "End")
           /\ frame.ret_pc = << >> => result = "End"

\* C9 witness: `return` inside an if of a called function, an operand and a
\* label of the callee discarded, the caller continues after the call
C9_Witness ==
    /\ Did({"Return"}) /\ NumFrames(last.stack) = 2 /\ NumLabels(last.stack) = 3
    /\ NumFrames(stack) = 1 /\ pc = [module |-> 0, func |-> 8, inst |-> 3]
    /\ stack[Len(stack)] = Val(60) /\ stack[Len(stack) - 1] = Val(50)

\* C9 further cases: br_if to the Return label of a callee; return three labels deep
C9_WitnessBr ==
    /\ Did({"BrIf"}) /\ DidLeaveFunction /\ NumFrames(last.stack) = 2
    /\ pc = [module |-> 0, func |-> 8, inst |-> 6] /\ stack[Len(stack)] = Val(62)

C9_WitnessDeep ==
    Did({"Return"}) /\ NumLabels(last.stack) = 4 /\ Len(stack) = 1 /\ stack[1] = Val(11)

\* the i32 index read as an unsigned number
AsUnsigned(i) == i % (2 ^ ValueBits)

\* C10: br_table pops the index i and branches to table[i] when i read as an
\* unsigned number is below the table length, to the default target otherwise
\* (so for every negative i): the labels down to that target are popped and
\* the pc is just after the `end` of the target block.
C10_BrTableSelects ==
    Did({"BrTable"}) =>
        LET u == AsUnsigned(TopVal)
            d == IF u < Len(last.inst.table) THEN last.inst.table[u + 1]
                 ELSE last.inst.default
            base == Front(last.stack)
        IN /\ ~IsTrap(result)
           /\ last.stack[Len(last.stack)].kind = "Value"
           /\ NumLabels(stack) = NumLabels(base) - (d + 1)
           /\ (d < Cardinality(Enclosing(LastInsts, last.pc.inst))
               /\ InstAt(LastInsts, NthEnclosing(LastInsts, last.pc.inst, d)).op
                    \in {"Block", "If"})
                => pc = [last.pc EXCEPT !.inst =
                            MatchingEnd(LastInsts,
                                        NthEnclosing(LastInsts, last.pc.inst, d)) + 1]

\* C10 witness: the most negative index selects the default target (depth 2)
C10_Witness ==
    /\ Did({"BrTable"}) /\ TopVal = MinI32 /\ last.inst.default = 2
    /\ NumLabels(stack) = 1 /\ pc.inst = 13

\* C10 further case: index 1 selects table[1]
C10_WitnessInRange == Did({"BrTable"}) /\ TopVal = 1 /\ pc.inst = 10

----------------------------------------------------------------------------
(* Calls.                                                                  *)

\* the frame that executes the last instruction
LastFrame == CurrentFrame(last.stack)

\* the k topmost entries of s are operand values
ValuesOnTop(s, k) == Len(s) >= k /\ \A i \in 1 .. k : s[Len(s) + 1 - i].kind = "Value"

\* the FuncAddr a `call` resolves, as a sequence of at most one exec address
CalledAddr == StoreFunc(LastFrame.module, last.inst.function_index)

CalledFunc == FuncGlobal(CalledAddr[1])

\* the last step executed a `call` of a defined / of a host function
DidCall(native) ==
    /\ Did({"Call"}) /\ CalledAddr # << >> /\ CalledFunc.native = native

\* C11: a call of a defined function with k parameters whose operands are on
\* the stack removes the top k operands, pushes an activation whose locals are
\* those operands in declared order and whose saved pc is the instruction
\* after the call, pushes a Return label with the callee's result count, and
\* sets the pc to (callee module, callee exec address, 0) before invoke_func
\* is called; the signal invoke_func returns is the signal of the instruction:
\* the step returns it when the pre-hook answered Next, and a Breakpoint of
\* invoke_func is returned whatever the pre-hook answered.
C11_CallEntersFunction ==
    (DidCall(FALSE) /\ ValuesOnTop(last.stack, CalledFunc.params)) =>
        LET k == CalledFunc.params
            base == last.stack
            entry == [module |-> CalledFunc.module, func |-> CalledAddr[1], inst |-> 0]
        IN /\ stack = SubSeq(base, 1, Len(base) - k)
                        \o << Activation([module |-> CalledFunc.module,
                                          exec_addr |-> CalledAddr[1],
                                          locals |-> TopN(base, k),
                                          ret_pc |-> << [last.pc EXCEPT !.inst = @ + 1] >>]),
                              LabelReturn(CalledFunc.returns) >>
           /\ pc = entry
           /\ Len(last.entered) = 1
           /\ last.entered[1].name = CalledFunc.name /\ last.entered[1].pc = entry
           /\ last.raw = last.entered[1].signal
           /\ last.hook = "Next" => result = last.entered[1].signal
           /\ last.entered[1].signal = "Breakpoint" => result = "Breakpoint"

\* C11 witness: a Breakpoint of invoke_func on the entry of function 2, called
\* with the operands 1 and 2 above an operand of the caller
C11_Witness ==
    /\ DidCall(FALSE) /\ last.hook = "Next" /\ result = "Breakpoint"
    /\ pc = [module |-> 0, func |-> 2, inst |-> 0]
    /\ CurrentFrame(stack).locals = << Val(1), Val(2) >>
    /\ CurrentFrame(stack).ret_pc = << [module |-> 0, func |-> 43, inst |-> 4] >>
    /\ stack[Len(stack) - 2] = Val(84)

\* the k topmost entries of s are i32 operand values
OperandsMatch(s, k) ==
    ValuesOnTop(s, k) /\ \A i \in 1 .. k : s[Len(s) + 1 - i].ty = "I32"

\* C12: a call whose popped operands do not match the callee's signature
\* (fewer operands than parameters, or an operand that is not of the declared
\* parameter type) traps, pushes no activation and calls no host body.
C12_MismatchTraps ==
    (Did({"Call"}) /\ CalledAddr # << >>
     /\ ~OperandsMatch(last.stack, CalledFunc.params)) =>
        /\ IsTrap(result)
        /\ NumFrames(stack) = NumFrames(last.stack)
        /\ last.host = << >>

\* C12, the part the code keeps: with fewer operands than parameters the call
\* traps with DirectCallTypeMismatch, pushes no activation, calls no host body
C12_UnderflowTraps ==
    (Did({"Call"}) /\ CalledAddr # << >>
     /\ ~ValuesOnTop(last.stack, CalledFunc.params)) =>
        /\ result = "DirectCallTypeMismatch"
        /\ NumFrames(stack) = NumFrames(last.stack)
        /\ last.host = << >>

C12_WitnessUnderflow ==
    /\ Did({"Call"}) /\ ~ValuesOnTop(last.stack, CalledFunc.params)
    /\ result = "DirectCallTypeMismatch"

\* C13: a call of a host function whose operands are on the stack pushes no
\* activation and no label; the host body receives the popped arguments in
\* declared order; on success exactly the result count of values is pushed, in
\* the order the host produced them, the pc is the instruction after the call
\* and the instruction's signal is Next; when the host body fails the step
\* traps and no result is pushed.
C13_HostCall ==
    (DidCall(TRUE) /\ ValuesOnTop(last.stack, CalledFunc.params)) =>
        LET k == CalledFunc.params
            base == last.stack
            args == TopN(base, k)
        IN /\ Len(last.host) = 1
           /\ last.host[1].name = CalledFunc.name /\ last.host[1].args = args
           /\ NumFrames(stack) = NumFrames(base) /\ NumLabels(stack) = NumLabels(base)
           /\ last.entered = << >>
           /\ pc = [last.pc EXCEPT !.inst = @ + 1]
           /\ IF IsTrap(result)
              THEN result = "HostFunctionError" /\ stack = SubSeq(base, 1, Len(base) - k)
              ELSE /\ last.raw = "Next"
                   /\ Len(HostCode(CalledFunc.name, args)) = CalledFunc.returns
                   /\ stack = SubSeq(base, 1, Len(base) - k)
                                \o HostCode(CalledFunc.name, args)

\* C13 witness: host_pair called with (1, 2) has produced (2, 1)
C13_Witness ==
    /\ DidCall(TRUE) /\ result = "Next"
    /\ last.host[1].name = "host_pair" /\ last.host[1].args = << Val(1), Val(2) >>
    /\ TopN(stack, 3) = << Val(80), Val(2), Val(1) >>

\* C13 further case: the host body fails
C13_WitnessFails ==
    /\ DidCall(TRUE) /\ result = "HostFunctionError"
    /\ last.host[1].name = "host_pair" /\ stack[Len(stack)] = Val(80)

\* C14: a host body is called with the module index of the caller, the module
\* of the activation that executes the call or call_indirect instruction.
C14_HostGetsCallerModule ==
    (WasLive /\ last.host # << >>) => last.host[1].module_index = LastFrame.module

\* C14, what holds of `call`: the host body gets the caller's module index
C14_CallGivesCallerModule ==
    (DidCall(TRUE) /\ last.host # << >>) => last.host[1].module_index = LastFrame.module

C14_WitnessCall ==
    DidCall(TRUE) /\ last.host # << >> /\ LastFrame.module = 1
    /\ last.host[1].module_index = 1

\* the entry of table 0 that call_indirect looks up, for an index in range
IndirectRef == last.tables[1][AsUnsigned(TopVal) + 1]

\* the function a FuncRef of the table resolves to
IndirectFunc == FuncGlobal(StoreFunc(IndirectRef.module, IndirectRef.index)[1])

\* the step left the operands below the index, pushed no activation, called
\* no host body and entered no function
NothingInvoked ==
    /\ stack = Front(last.stack)
    /\ last.host = << >> /\ last.entered = << >>

\* C15: call_indirect pops the i32 index and decides its traps before anything
\* is invoked: an index outside the table traps with the table's error
\* (undefined element), a NullRef entry with UndefinedFunc (uninitialized
\* element), a callee whose signature differs from the declared type with
\* IndirectCallTypeMismatch, and then nothing is invoked and no operand below
\* the index is popped; otherwise the referenced function is invoked.
C15_CallIndirectTraps ==
    (Did({"CallIndirect"}) /\ ValuesOnTop(last.stack, 1)
     /\ last.stack[Len(last.stack)].ty = "I32") =>
        LET ty == Types[last.inst.index + 1]
        IN IF AsUnsigned(TopVal) >= Len(last.tables[1])
           THEN result = "Table" /\ NothingInvoked
           ELSE IF IndirectRef = NullRef
           THEN result = "UndefinedFunc" /\ NothingInvoked
           ELSE IF FuncType(IndirectFunc.params, IndirectFunc.returns) # ty
           THEN result = "IndirectCallTypeMismatch" /\ NothingInvoked
           ELSE /\ Len(last.host) + Len(last.entered) = 1
                /\ IndirectFunc.native => last.host[1].name = IndirectFunc.name
                /\ ~IndirectFunc.native => last.entered[1].name = IndirectFunc.name

\* C15 witness: the declared type (i32 i32) -> (i32) against a callee of type
\* (i32) -> (i32): the trap leaves the three operands below the index
C15_Witness ==
    /\ Did({"CallIndirect"}) /\ result = "IndirectCallTypeMismatch"
    /\ TopVal = 0 /\ Len(stack) = 5 /\ stack[3] = Val(83)

\* C15 further cases: out of range (index -1), NullRef, a callee invoked
C15_WitnessOutOfRange == Did({"CallIndirect"}) /\ result = "Table" /\ TopVal = -1

C15_WitnessNull == Did({"CallIndirect"}) /\ result = "UndefinedFunc" /\ TopVal = 1

C15_WitnessInvoked ==
    /\ Did({"CallIndirect"}) /\ TopVal = 0 /\ last.entered # << >>
    /\ pc = [module |-> 0, func |-> 9, inst |-> 0]

----------------------------------------------------------------------------
(* Memory accesses.                                                        *)

MemOps == {"I32Load", "I32Store", "I32Store8"}

\* the last step executed a load or a store whose i32 operands were on the stack
DidAccess ==
    /\ Did(MemOps)
    /\ OperandsMatch(last.stack, IF last.inst.op = "I32Load" THEN 1 ELSE 2)

\* the base operand of the access, read as an unsigned 32-bit number
AccessBase ==
    AsUnsigned(IF last.inst.op = "I32Load" THEN TopVal
               ELSE last.stack[Len(last.stack) - 1].val)

\* the sum the claim calls the effective address
AccessSum == AccessBase + last.inst.offset

\* the number of bytes the access reads or writes
AccessLen == IF last.inst.op = "I32Store8" THEN 1 ELSE 4

\* the memory of the access, before the step (memory 0 of the module)
AccessMem == last.mems[1]

\* the bytes of the word a store writes, the lowest first
WordBytes(v) ==
    [i \in 1 .. 4 |-> (AsUnsigned(v) \div (2 ^ (ByteBits * (i - 1)))) % (2 ^ ByteBits)]

\* the address overflows the memory's address width
AddrOverflows ==
    IF config.memory64 THEN AccessSum > 2 ^ UsizeBits - 1
    ELSE last.inst.offset > 2 ^ ValueBits - 1 \/ AccessSum > 2 ^ ValueBits - 1

\* C16: for every base (the i32 operand read as unsigned) and every static
\* offset a load or store traps with MemoryAddrOverflow exactly when, with
\* memory64 disabled, the offset or base + offset exceeds 2^32 - 1 and, with
\* memory64 enabled, base + offset exceeds 2^64 - 1; in every other case the
\* access is at the untruncated sum base + offset: it is in bounds or not by
\* that sum, a store reports that address to after_store and writes there,
\* a load pushes the word found there.
C16_EffectiveAddress ==
    DidAccess =>
        /\ last.raw = "MemoryAddrOverflow" <=> AddrOverflows
        /\ ~AddrOverflows =>
              /\ last.raw = "Memory" <=> AccessSum + AccessLen > Len(AccessMem)
              /\ (last.raw # "Memory" /\ last.inst.op # "I32Load") =>
                    /\ last.stored[1].addr = AccessSum
                    /\ \A i \in 1 .. AccessLen :
                          store.mems[1][AccessSum + i] = WordBytes(TopVal)[i]
              /\ (last.raw # "Memory" /\ last.inst.op = "I32Load") =>
                    \A i \in 1 .. 4 :
                        WordBytes(stack[Len(stack)].val)[i] = AccessMem[AccessSum + i]

\* C16 witness: base -1 (2^32 - 1 unsigned) with offset 1 overflows 32 bits
C16_Witness ==
    /\ DidAccess /\ ~config.memory64 /\ last.raw = "MemoryAddrOverflow"
    /\ AccessBase = 2 ^ ValueBits - 1 /\ last.inst.offset = 1

\* C16 further cases: the same operands with memory64 (no overflow, the sum
\* 2^32 is out of bounds), an offset above 32 bits, the 64-bit overflow, and
\* a store that succeeds at base + offset
C16_WitnessMemory64 ==
    /\ DidAccess /\ config.memory64 /\ last.raw = "Memory"
    /\ AccessBase = 2 ^ ValueBits - 1 /\ last.inst.offset = 1

C16_WitnessOffset ==
    /\ DidAccess /\ ~config.memory64 /\ last.raw = "MemoryAddrOverflow"
    /\ AccessBase = 0 /\ last.inst.offset = 2 ^ ValueBits

C16_WitnessOverflow64 ==
    /\ DidAccess /\ config.memory64 /\ last.raw = "MemoryAddrOverflow"
    /\ AccessBase = 1 /\ last.inst.offset = 2 ^ UsizeBits - 1

C16_WitnessStored ==
    /\ DidAccess /\ last.inst.op = "I32Store" /\ last.raw = "Next"
    /\ AccessBase = 2 /\ last.inst.offset = 1 /\ last.stored[1].addr = 3

BulkMemOps == {"MemoryCopy", "MemoryFill", "MemoryInit"}

\* the last step executed a bulk memory instruction with its operands on the stack
DidBulkMem == Did(BulkMemOps) /\ OperandsMatch(last.stack, 3)

\* the operands of a bulk instruction: the length, the second and the third
BulkLen == TopVal

BulkSrc == last.stack[Len(last.stack) - 1].val

BulkDst == last.stack[Len(last.stack) - 2].val

\* the region [offset, offset + size) of usize operands, converted from i32
\* by sign extension, does not lie within limit
OutOfRegion(offset, size, limit) == offset < 0 \/ size < 0 \/ offset + size > limit

\* the bytes of the memory, page_count * 65536
MemBytes == PageCount(AccessMem) * WASM_PAGE_SIZE

\* a region of memory the bulk instruction accesses lies outside the memory
BulkMemOutside ==
    \/ OutOfRegion(BulkDst, BulkLen, MemBytes)
    \/ last.inst.op = "MemoryCopy" /\ OutOfRegion(BulkSrc, BulkLen, MemBytes)

\* C17: a load, store or bulk memory instruction that completes without a
\* trap has accessed only bytes inside [0, page_count * 65536) of its memory;
\* an access of len bytes at addr with addr + len > page_count * 65536 traps
\* with the memory's out-of-bounds error and writes nothing.
C17_AccessInBounds ==
    /\ (DidAccess /\ ~AddrOverflows) =>
          IF AccessSum + AccessLen > MemBytes
          THEN last.raw = "Memory" /\ store.mems = last.mems
          ELSE ~IsTrap(last.raw)
    /\ DidBulkMem =>
          IF BulkMemOutside
          THEN last.raw = "Memory" /\ store.mems = last.mems
          ELSE last.raw \in {"Next", "Data"}
    /\ Executed => \A m \in 1 .. Len(store.mems) : Len(store.mems[m]) = Len(last.mems[m])

\* C17 witness: a store of 4 bytes 3 bytes below the end of the memory
C17_Witness ==
    /\ DidAccess /\ last.inst.op = "I32Store" /\ last.raw = "Memory"
    /\ AccessSum = MemBytes - 3

\* C17 further cases: stores and loads that end at the last byte, bulk
\* instructions in bounds and outside
C17_WitnessLastByte ==
    /\ DidAccess /\ last.inst.op = "I32Store8" /\ last.raw = "Next"
    /\ AccessSum = MemBytes - 1 /\ store.mems # last.mems

C17_WitnessLoad ==
    /\ DidAccess /\ last.inst.op = "I32Load" /\ last.raw = "Next"
    /\ AccessSum = MemBytes - 4

C17_WitnessLoadOutside ==
    DidAccess /\ last.inst.op = "I32Load" /\ last.raw = "Memory" /\ AccessSum = MemBytes - 3

C17_WitnessFill ==
    /\ DidBulkMem /\ last.inst.op = "MemoryFill" /\ last.raw = "Next"
    /\ BulkDst + BulkLen = MemBytes /\ BulkLen > 0 /\ store.mems # last.mems

C17_WitnessFillOutside ==
    /\ DidBulkMem /\ last.inst.op = "MemoryFill" /\ last.raw = "Memory"
    /\ BulkDst + BulkLen = MemBytes + 1 /\ BulkDst >= 0 /\ BulkLen > 0

C17_WitnessCopyOutside ==
    /\ DidBulkMem /\ last.inst.op = "MemoryCopy" /\ last.raw = "Memory"
    /\ ~OutOfRegion(BulkDst, BulkLen, MemBytes) /\ BulkSrc = -1 /\ BulkLen = 1

\* the last step executed i32.store of the word 0x04030201 in a memory of
\* exactly one page, at the effective address addr
StoredWordAt(addr) ==
    /\ DidAccess /\ last.inst.op = "I32Store" /\ ~AddrOverflows
    /\ PageCount(AccessMem) = 1 /\ TopVal = StoredWord /\ AccessSum = addr

\* C18, as stated: in a memory of one page i32.store of 0x04030201 succeeds at
\* the effective address 65533 (3 bytes below the end of the page) and traps
\* out of bounds at 65534.
C18_StoreAt65533Succeeds ==
    /\ StoredWordAt(WASM_PAGE_SIZE - 3) => ~IsTrap(last.raw)
    /\ StoredWordAt(WASM_PAGE_SIZE - 2) => last.raw = "Memory"

\* C18, amended: in a memory of one page i32.store of 0x04030201 succeeds at
\* the effective address 65532 (4 bytes below the end of the page), where it
\* writes the four bytes of the word, the lowest first, and traps out of
\* bounds at 65533 and at 65534, leaving the memory as it was.
C18_StoreAt65532Succeeds ==
    /\ StoredWordAt(WASM_PAGE_SIZE - 4) =>
          /\ ~IsTrap(last.raw)
          /\ TopN(store.mems[1], 4) = WordBytes(StoredWord)
    /\ (StoredWordAt(WASM_PAGE_SIZE - 3) \/ StoredWordAt(WASM_PAGE_SIZE - 2)) =>
          last.raw = "Memory" /\ store.mems = last.mems

C18_Witness ==
    /\ StoredWordAt(WASM_PAGE_SIZE - 4) /\ last.raw = "Next"
    /\ TopN(store.mems[1], 4) # TopN(last.mems[1], 4)

C18_WitnessTraps == StoredWordAt(WASM_PAGE_SIZE - 3) /\ last.raw = "Memory"

C18_WitnessTraps2 == StoredWordAt(WASM_PAGE_SIZE - 2) /\ last.raw = "Memory"

----------------------------------------------------------------------------
(* The after_store hook and the bulk instructions.                         *)

\* the last step executed a typed or narrowing store that did not trap
DidStore == DidAccess /\ last.inst.op # "I32Load" /\ ~IsTrap(last.raw)

\* the last step executed a bulk memory instruction that wrote at least one
\* byte and did not trap
DidBulkWrite == DidBulkMem /\ BulkLen > 0 /\ ~IsTrap(last.raw)

\* C19: after_store(addr, bytes) is called after every successful write to
\* memory, once per writing instruction, with the address and the bytes
\* written: for the typed stores, the narrowing stores and for memory.fill,
\* memory.copy and memory.init; it is not called when the write traps.
C19_AfterStoreOnEveryWrite ==
    /\ DidStore =>
          last.stored = << [addr |-> AccessSum,
                            bytes |-> SubSeq(WordBytes(TopVal), 1, AccessLen)] >>
    /\ DidBulkWrite =>
          /\ Len(last.stored) = 1
          /\ last.stored[1].addr = BulkDst
          /\ last.stored[1].bytes = SubSeq(store.mems[1], BulkDst + 1, BulkDst + BulkLen)
    /\ (Executed /\ IsTrap(last.raw)) => last.stored = << >>

\* C19, what holds: the typed and the narrowing stores call after_store once
\* with the address and the bytes written, and its signal is the signal of
\* the instruction; no instruction that traps calls it
C19_AfterStoreOnStores ==
    /\ DidStore =>
          /\ last.stored = << [addr |-> AccessSum,
                               bytes |-> SubSeq(WordBytes(TopVal), 1, AccessLen)] >>
          /\ last.raw \in {"Next", "Breakpoint"}
    /\ (Executed /\ IsTrap(last.raw)) => last.stored = << >>

C19_WitnessStore8 ==
    /\ DidStore /\ last.inst.op = "I32Store8" /\ last.raw = "Breakpoint"
    /\ Len(last.stored[1].bytes) = 1

\* C19: a memory.fill that wrote and called no hook
C19_WitnessFill ==
    DidBulkWrite /\ last.inst.op = "MemoryFill" /\ store.mems # last.mems
    /\ last.stored = << >>

BulkTableOps == {"TableCopy", "TableFill", "TableInit"}

\* the last step executed a bulk instruction with its operands on the stack:
\* three i32, or for table.fill an i32, a reference and an i32
DidBulk ==
    \/ DidBulkMem
    \/ Did({"TableCopy", "TableInit"}) /\ OperandsMatch(last.stack, 3)
    \/ /\ Did({"TableFill"}) /\ ValuesOnTop(last.stack, 3)
       /\ TopN(last.stack, 3)[1].ty = "I32"
       /\ TopN(last.stack, 3)[2].ty = "FuncRef"
       /\ TopN(last.stack, 3)[3].ty = "I32"

\* the length of the table, the element segment, the data segment before the step
TableLen == Len(last.tables[1])

ElemLen == Len(store.elems[1])

DataLen == Len(store.datas[1])

\* a source or destination region of the bulk instruction is not valid
BulkOutside ==
    LET op == last.inst.op
    IN \/ op \in BulkMemOps /\ BulkMemOutside
       \/ op = "MemoryInit" /\ OutOfRegion(BulkSrc, BulkLen, DataLen)
       \/ op \in BulkTableOps /\ OutOfRegion(BulkDst, BulkLen, TableLen)
       \/ op = "TableCopy" /\ OutOfRegion(BulkSrc, BulkLen, TableLen)
       \/ op = "TableInit" /\ OutOfRegion(BulkSrc, BulkLen, ElemLen)

\* C20: a bulk region instruction (memory.copy, memory.fill, memory.init,
\* table.copy, table.fill, table.init) that traps leaves every byte of every
\* memory and every reference of every table as before the instruction; it
\* traps exactly when its source or its destination region is not valid, for
\* all operand values including negative i32 lengths and offsets, so both
\* regions are validated before the first write.
C20_BulkTrapWritesNothing ==
    /\ (Did(BulkMemOps \cup BulkTableOps) /\ IsTrap(last.raw)) =>
          store.mems = last.mems /\ store.tables = last.tables
    /\ DidBulk => (IsTrap(last.raw) <=> BulkOutside)

\* C20 witness: memory.copy whose source is valid and whose destination ends
\* one byte after the memory
C20_Witness ==
    /\ DidBulk /\ last.inst.op = "MemoryCopy" /\ IsTrap(last.raw)
    /\ ~OutOfRegion(BulkSrc, BulkLen, MemBytes)
    /\ BulkDst + BulkLen = MemBytes + 1 /\ BulkLen > 1

\* C20 further cases: a negative length, a negative offset with length 0, and
\* the table instructions with a region that is partly valid
C20_WitnessNegativeLength ==
    DidBulk /\ last.inst.op = "MemoryFill" /\ IsTrap(last.raw) /\ BulkLen = -1 /\ BulkDst = 0

C20_WitnessNegativeOffset ==
    DidBulk /\ last.inst.op = "MemoryInit" /\ IsTrap(last.raw) /\ BulkLen = 0 /\ BulkDst = MinI32

C20_WitnessInitSource ==
    /\ DidBulk /\ last.inst.op = "MemoryInit" /\ last.raw = "Data"
    /\ BulkSrc + BulkLen = DataLen + 1 /\ BulkLen > 1

C20_WitnessTableFill ==
    /\ DidBulk /\ last.inst.op = "TableFill" /\ IsTrap(last.raw)
    /\ BulkDst + BulkLen = TableLen + 1 /\ BulkLen > 1

C20_WitnessTableCopy ==
    /\ DidBulk /\ last.inst.op = "TableCopy" /\ IsTrap(last.raw)
    /\ ~OutOfRegion(BulkSrc, BulkLen, TableLen)
    /\ BulkDst + BulkLen = TableLen + 1 /\ BulkLen > 1

C20_WitnessTableInit ==
    /\ DidBulk /\ last.inst.op = "TableInit" /\ last.raw = "Element"
    /\ BulkSrc + BulkLen = ElemLen + 1 /\ BulkLen > 1

C20_WitnessWritten ==
    DidBulk /\ last.inst.op = "TableCopy" /\ ~IsTrap(last.raw) /\ store.tables # last.tables

----------------------------------------------------------------------------
(* Dropped segments.                                                       *)

\* the function of the last step has executed op before the instruction of
\* the last step (the bodies that drop a segment are straight-line code)
HasExecuted(op) == \E i \in 1 .. last.pc.inst : LastInsts[i].op = op

\* data.drop / elem.drop has been executed for the segment
DataDropped == HasExecuted("DataDrop")

ElemDropped == HasExecuted("ElemDrop")

\* the last step executed memory.init / table.init naming a segment that had
\* been dropped, its three i32 operands on the stack
DidInitDropped ==
    \/ Did({"MemoryInit"}) /\ OperandsMatch(last.stack, 3) /\ DataDropped
    \/ Did({"TableInit"}) /\ OperandsMatch(last.stack, 3) /\ ElemDropped

\* C21, as stated: after data.drop (elem.drop) of a segment every later
\* memory.init (table.init) naming it traps and changes no memory byte and no
\* table entry, for all destinations, source offsets and lengths.
C21_InitAfterDropTraps ==
    DidInitDropped =>
        /\ IsTrap(last.raw)
        /\ store.mems = last.mems /\ store.tables = last.tables

\* the only region of a dropped segment that is valid: offset 0, length 0
EmptyRegion == BulkSrc = 0 /\ BulkLen = 0

\* the destination of an init of length 0 is valid
DstInBounds ==
    /\ 0 <= BulkDst
    /\ BulkDst <= (IF last.inst.op = "MemoryInit" THEN MemBytes ELSE TableLen)

\* C21, amended: after data.drop (elem.drop) of a segment no later
\* memory.init (table.init) naming it changes a memory byte or a table entry;
\* it traps for all operands but length 0 with source offset 0 and a
\* destination inside the memory (table), for which it completes.
C21_InitAfterDropWritesNothing ==
    DidInitDropped =>
        /\ store.mems = last.mems /\ store.tables = last.tables
        /\ IsTrap(last.raw) <=> ~(EmptyRegion /\ DstInBounds)

\* C21 witness: memory.init of one byte from the dropped segment traps
C21_Witness ==
    /\ DidInitDropped /\ last.inst.op = "MemoryInit" /\ last.raw = "Data"
    /\ BulkLen = 1 /\ BulkSrc = 0 /\ BulkDst = 0

\* C21 further cases: the init of length 0 completes; a positive source
\* offset with length 0 traps; the same for table.init
C21_WitnessEmpty ==
    DidInitDropped /\ last.inst.op = "MemoryInit" /\ last.raw = "Next" /\ EmptyRegion

C21_WitnessSource ==
    /\ DidInitDropped /\ last.inst.op = "MemoryInit" /\ last.raw = "Data"
    /\ BulkLen = 0 /\ BulkSrc = 1

C21_WitnessElem ==
    /\ DidInitDropped /\ last.inst.op = "TableInit" /\ last.raw = "Element"
    /\ BulkLen = 1 /\ BulkSrc = 0 /\ BulkDst = 0

C21_WitnessElemEmpty ==
    DidInitDropped /\ last.inst.op = "TableInit" /\ last.raw = "Next" /\ EmptyRegion

----------------------------------------------------------------------------
(* The Return label of each activation.                                    *)

\* the entries of the frame whose activation is at position i: those above
\* it, below the next activation
FrameEntries(s, i) ==
    {j \in i + 1 .. Len(s) : \A k \in i + 1 .. j : s[k].kind # "Activation"}

\* the Return labels among the entries of that frame
ReturnLabels(s, i) == {j \in FrameEntries(s, i) : s[j].kind = "Label" /\ s[j].lk = "Return"}

\* the arity the Return label of that frame was given: the initial arity for
\* the initial frame (the result count of the function Executor::new got),
\* the callee's result count for a frame created by a call
FrameArity(s, i) == FuncGlobal(s[i].frame.exec_addr).returns

\* C22: at every instruction boundary (the executor not stopped by a trap)
\* each activation on the stack has exactly one Return label; it is directly
\* above the activation, so it is the lowest label of the frame; its arity is
\* the arity given to Executor::new for the initial frame and the callee's
\* result count for a frame created by a call.
C22_OneReturnLabelPerFrame ==
    ~IsTrap(result) =>
        \A i \in FrameIndex(stack) :
            /\ ReturnLabels(stack, i) = {i + 1}
            /\ stack[i + 1].arity = FrameArity(stack, i)
            /\ (stack[i].frame.ret_pc = << >>) <=> (i = 1)

\* C22 witness: two activations, the callee inside a block with operands on
\* the stack, the Return labels of arity 2 (initial frame) and 1 (callee)
C22_Witness ==
    /\ ~IsTrap(result) /\ Cardinality(FrameIndex(stack)) = 2
    /\ stack[2] = LabelReturn(2)
    /\ \E i \in FrameIndex(stack) :
          /\ i > 1 /\ stack[i + 1] = LabelReturn(1)
          /\ \E j \in FrameEntries(stack, i) : stack[j].kind = "Label" /\ stack[j].lk # "Return"

----------------------------------------------------------------------------
(* The end of a block.                                                     *)

\* the position of the topmost label of s
TopLabelPos(s) ==
    CHOOSE j \in 1 .. Len(s) :
        s[j].kind = "Label" /\ \A k \in j + 1 .. Len(s) : s[k].kind # "Label"

\* the last step executed `end` with a label above the Return label of the
\* current frame
DidBlockEnd == Did({"End"}) /\ Len(CurrentFrameLabels(last.stack)) > 1

\* C29: a mid-function `end` (the current frame has a label above its Return
\* label) pops exactly one label, the innermost one, and leaves the operands
\* that were above it on the stack in unchanged order; the pc advances by one
\* and no activation is touched.
C29_BlockEndPopsOneLabel ==
    DidBlockEnd =>
        LET s == last.stack
            j == TopLabelPos(s)
        IN /\ last.raw = "Next"
           /\ s[j].lk # "Return"
           /\ \A k \in j + 1 .. Len(s) : s[k].kind = "Value"
           /\ stack = SubSeq(s, 1, j - 1) \o SubSeq(s, j + 1, Len(s))
           /\ pc = [last.pc EXCEPT !.inst = @ + 1]

\* C29 witness: the end of a block with the operands 1 and 2 above its label
C29_Witness ==
    /\ DidBlockEnd /\ TopLabelPos(last.stack) = Len(last.stack) - 2
    /\ TopN(stack, 2) = << Val(1), Val(2) >>
    /\ NumLabels(stack) = NumLabels(last.stack) - 1

\* C29 further case: the end of a block inside a called function, one operand
\* above the label
C29_WitnessCallee ==
    /\ DidBlockEnd /\ NumFrames(stack) = 2 /\ NumFrames(last.stack) = 2
    /\ TopLabelPos(last.stack) = Len(last.stack) - 1
    /\ stack[Len(stack)] = last.stack[Len(last.stack)]

\* ---- C23: pop_result ----

\* the number of values on top of the stack s
RECURSIVE TopValues(_)
TopValues(s) ==
    IF s = << >> THEN 0
    ELSE IF s[Len(s)].kind # "Value" THEN 0
    ELSE 1 + TopValues(Front(s))

\* the i-th entry of s counted from the top, and the type declared for it
FromTop(s, i) == s[Len(s) + 1 - i]

DeclaredFromTop(tys, i) == tys[Len(tys) + 1 - i]

\* the positions, counted from the top, at which pop_result cannot go on: no
\* value is left there, or the value there is not of the declared type
MissingAt(i) == i > TopValues(returned.from)

MismatchAt(i) ==
    /\ ~MissingAt(i)
    /\ FromTop(returned.from, i).ty # DeclaredFromTop(returned.return_ty, i)

FailingPositions ==
    {i \in 1 .. Len(returned.return_ty) : MissingAt(i) \/ MismatchAt(i)}

FirstFailing == CHOOSE i \in FailingPositions : \A j \in FailingPositions : i <= j

\* C23: after End, pop_result(return types) returns one value per declared
\* type, in the order of the declared types (these are the topmost values of
\* the stack in stack order, so the value popped last is first) and removes
\* them from the stack; otherwise it fails at the first position, counted
\* from the top, at which it cannot go on: with TypeMismatchReturnValue of
\* the value there when that value is not of the declared type, with a Stack
\* error when no value is left there.
C23_PopResultInDeclaredOrder ==
    returned.called =>
        LET n == Len(returned.return_ty)
            out == returned.out
        IN IF FailingPositions = {}
           THEN /\ out.err = "None"
                /\ Len(out.vals) = n
                /\ out.vals = TopN(returned.from, n)
                /\ \A i \in 1 .. n : out.vals[i].ty = returned.return_ty[i]
                /\ out.stack = SubSeq(returned.from, 1, Len(returned.from) - n)
           ELSE IF MismatchAt(FirstFailing)
           THEN /\ out.err = "TypeMismatchReturnValue"
                /\ out.vals = << FromTop(returned.from, FirstFailing) >>
           ELSE out.err = "Stack"

\* C23 witness: the results i64 7 and i32 5 of mixed_results, retrieved with
\* the return types (i64, i32)
C23_Witness ==
    /\ returned.called /\ result = "End"
    /\ returned.return_ty = << "I64", "I32" >>
    /\ returned.out.err = "None"
    /\ returned.out.vals = << ValI64(7), Val(5) >>

\* C23 further cases: a mismatch at the second value from the top; a Stack
\* error with one value for two declared types; a mismatch of the only value
\* although two types are declared
C23_WitnessMismatchSecond ==
    /\ returned.called /\ returned.out.err = "TypeMismatchReturnValue"
    /\ FailingPositions # {} /\ FirstFailing = 2

C23_WitnessStack ==
    /\ returned.called /\ returned.out.err = "Stack"
    /\ Len(returned.from) = 1 /\ Len(returned.return_ty) = 2

C23_WitnessMismatchAboveMissing ==
    /\ returned.called /\ returned.out.err = "TypeMismatchReturnValue"
    /\ Len(returned.from) = 1 /\ Len(returned.return_ty) = 2

\* ---- C30: call and return are balanced ----

\* the last step left a called function: its entry in the history of calls
LeftCallee == calls.finished # << >>

FinishedCall == calls.finished[1]

\* the n results of the callee the last step left: its topmost values, below
\* the operand a br_if or br_table pops first
CalleeResults(n) ==
    IF last.inst.op \in {"BrIf", "BrTable"} THEN TopN(Front(last.stack), n)
    ELSE TopN(last.stack, n)

\* the last step left a called function by one of the instructions in ops
LeftBy(ops) == LeftCallee /\ last.inst.op \in ops

\* C30: when a defined function invoked by call or call_indirect finishes
\* (final end, return, or br to its Return label), the stack is the caller's
\* stack at the invocation with the k argument operands replaced by the
\* callee's results (the topmost values of the callee, in their order), the
\* number of activations is what it was at the invocation, and the PC is
\* the instruction following the call instruction in the caller.
C30_CallReturnBalanced ==
    LeftCallee =>
        LET c == FinishedCall
            k == FuncGlobal(c.callee).params
            n == FuncGlobal(c.callee).returns
        IN /\ last.inst.op \in {"End", "Return", "Br", "BrIf", "BrTable"}
           /\ CurrentFrame(last.stack).exec_addr = c.callee
           /\ stack = SubSeq(c.stack, 1, Len(c.stack) - k) \o CalleeResults(n)
           /\ \A i \in 1 .. n : CalleeResults(n)[i].kind = "Value"
           /\ NumFrames(stack) = NumFrames(c.stack)
           /\ pc = [c.pc EXCEPT !.inst = c.pc.inst + 1]
           /\ InstAt(CurrentFuncInsts(c.pc), c.pc.inst).op \in {"Call", "CallIndirect"}

\* C30 witness: a callee with two parameters and one result, called with
\* other operands below its arguments, finishes by its final end
C30_Witness ==
    /\ LeftBy({"End"})
    /\ FuncGlobal(FinishedCall.callee).params = 2
    /\ FuncGlobal(FinishedCall.callee).returns = 1
    /\ Len(FinishedCall.stack) > 4

\* C30 further cases: the callee finishes by return, by a branch to its
\* Return label, after a call_indirect, and two calls deep
C30_WitnessReturn == LeftBy({"Return"})

C30_WitnessBr == LeftBy({"Br", "BrIf", "BrTable"})

C30_WitnessIndirect ==
    /\ LeftCallee
    /\ InstAt(CurrentFuncInsts(FinishedCall.pc), FinishedCall.pc.inst).op = "CallIndirect"

C30_WitnessNested == LeftCallee /\ NumFrames(stack) = 2

\* ---- C24: a module whose start function traps ----

\* the last directive instantiated a module whose start function trapped
StartTrapped ==
    /\ wast.last.kind \in {"module", "execute"}
    /\ wast.last.error \in {"Failed to instantiate", "while instntiation",
                             "Failed to exec start func"}
    /\ wast.last.bytes.links

\* the module of the last directive can be reached by the directive's name
\* through the store
InStoreByName ==
    /\ wast.last.name # NoName
    /\ wast.last.index # NoIndex
    /\ wast.names[wast.last.name] = wast.last.index

\* ... and through the harness: by name, or as the current module
InHarness ==
    /\ wast.last.index # NoIndex
    /\ \/ wast.current = wast.last.index
       \/ \E n \in Names : GetInstance(wast, n) = wast.last.index

\* C24: after instantiating a module whose start function traps, the
\* instantiation has failed and the failed module is not reachable by its
\* name, neither through the store nor through the harness's
\* module_index_by_name or current module.
C24_FailedStartNotRegistered ==
    StartTrapped => wast.last.error # "None" /\ ~InStoreByName /\ ~InHarness

\* C24, the harness's part: the failed module is not reachable through
\* module_index_by_name or the current module
C24_FailedStartNotInHarness == StartTrapped => ~InHarness

\* C24 witness (harness's part): a named module whose start function traps
\* in the harness's own invocation
C24_Witness ==
    /\ StartTrapped /\ wast.last.kind = "module" /\ wast.last.name = "a"
    /\ wast.last.error = "Failed to exec start func"

\* C24 further case: the start function traps inside load_module
C24_WitnessLoad ==
    /\ StartTrapped /\ wast.last.kind = "module" /\ wast.last.name = "a"
    /\ wast.last.error = "Failed to instantiate"
    /\ wast.last.bytes.start = "unreachable"

\* ---- C25: source-level step-in and step-over ----

\* the (file, line) of a line info
FileLine(li) == << li.filepath, li.line >>

\* the command's style was passed to every instruction-level step
StepsInStyle == \A i \in 1 .. Len(thread.steps) : thread.steps[i] = thread.style

\* every line info seen after a step, but the last, is on the starting line
StayedUntil(n) ==
    \A i \in 1 .. n :
        FileLine(thread.visited[i]) = FileLine(thread.initial_line_info)

\* C25: step-in and step-over perform at least one instruction-level step of
\* their style (InstIn, InstOver) and stop at the first step after which the
\* source map gives a (file, line) other than the one at the start (the
\* column does not count); a failing step or line lookup ends the command
\* at once with the error: no step follows a failed lookup, no lookup a
\* failed step, and nothing is displayed.
C25_StepUntilLineChanges ==
    /\ StepsInStyle
    /\ thread.phase = "done" =>
          /\ Len(thread.steps) >= 1
          /\ Len(thread.visited) = Len(thread.steps)
          /\ StayedUntil(Len(thread.visited) - 1)
          /\ FileLine(thread.visited[Len(thread.visited)])
                # FileLine(thread.initial_line_info)
          /\ thread.line = thread.visited[Len(thread.visited)]
          /\ thread.displayed = thread.line
    /\ thread.phase = "stepping" =>
          StayedUntil(Len(thread.visited)) /\ Len(thread.visited) = Len(thread.steps)
    /\ thread.phase = "error" =>
          /\ StayedUntil(Len(thread.visited))
          /\ thread.displayed = NoLine
          /\ thread.error = "step" =>
                /\ Len(thread.steps) = Len(thread.visited) + 1
                /\ thread.lookups = Len(thread.steps)
          /\ thread.error = "next_line_info" =>
                /\ thread.line = NoLine
                /\ thread.lookups = Len(thread.steps) + 1
                /\ Len(thread.visited) = IF thread.steps = << >> THEN 0
                                         ELSE Len(thread.steps) - 1

\* C25 witness: step-over stops after three steps, the first two on the
\* starting line (one of them in another column), the third in another file
C25_Witness ==
    /\ thread.phase = "done" /\ thread.style = "InstOver"
    /\ Len(thread.steps) = 3
    /\ thread.visited[1].column # thread.initial_line_info.column
    /\ thread.visited[3].filepath # thread.initial_line_info.filepath
    /\ thread.visited[3].line = thread.initial_line_info.line

\* C25 further cases: step-in stops after one step; the second step fails;
\* the lookup after the first step fails; the initial lookup fails
C25_WitnessOneStep ==
    thread.phase = "done" /\ thread.style = "InstIn" /\ Len(thread.steps) = 1

C25_WitnessStepFails ==
    thread.phase = "error" /\ thread.error = "step" /\ Len(thread.steps) = 2

C25_WitnessLookupFails ==
    /\ thread.phase = "error" /\ thread.error = "next_line_info"
    /\ Len(thread.steps) = 1

C25_WitnessInitialLookupFails ==
    /\ thread.phase = "error" /\ thread.error = "next_line_info"
    /\ thread.steps = << >>

\* ---- C26: one connection at a time ----

\* a call of _establish_connection is active for connection c
Active(c) == server.conns[c].call \in {"reading", "joining"}

\* C26: at any moment at most one call of _establish_connection is active,
\* and it is the one that holds the process-wide lock; so a connection
\* upgraded while another is active waits, and is active only once no other
\* is.
C26_OneConnectionAtATime ==
    \A c \in Conns :
        Active(c) => server.lock = c /\ \A d \in Conns \ {c} : ~Active(d)

\* C26 witness: connection 2, upgraded while connection 1 was active, is
\* active after connection 1 has returned
C26_Witness == Active(2) /\ server.conns[1].call = "returned"

\* C26 further cases: connection 2 waits while connection 1 is active; the
\* debugger thread of a connection that returned on a read error is still in
\* its REPL while the next connection is active with a thread of its own
C26_WitnessWaits == Active(1) /\ server.conns[2].call = "waiting"

C26_WitnessThreadOutlives ==
    /\ server.conns[1].call = "returned" /\ server.conns[1].thread = "repl"
    /\ Active(2) /\ server.conns[2].thread = "repl"

\* ---- C27: a request preempts the REPL ----

\* C27: while the debugger thread is in its REPL, a request that waits in
\* the channel is taken after a bounded number of polling run_step calls:
\* the polls made while it waits stay below the bound.
C27_RequestPreemptsRepl ==
    \A c \in Conns :
        (server.conns[c].thread = "repl" /\ RequestWaiting(server.conns[c]))
            => server.conns[c].polls < MaxPolls

\* ---- C28: one response for every request ----

\* the last message handled was handled with an error: a message that is
\* not a request, or a request whose handling failed
HandlingFailed ==
    \/ server.handled.msg = "Garbage"
    \/ server.handled.msg \in {"Init", "CallExported"} /\ server.handled.fails

\* the last message handled got one response, Error if its handling failed,
\* and the debugger thread goes on with its receive loop
AnsweredOnce ==
    /\ Len(server.handled.responses) = 1
    /\ HandlingFailed => server.handled.responses = << "Error" >>
    /\ server.handled.then = "serving"

\* C28: every message taken from the channel (Version, Init, CallExported,
\* Import, or one that cannot be deserialized) is answered with exactly one
\* response while the socket takes it, Error{message} if its handling
\* failed, and the debugger thread then serves the next.
C28_EveryRequestAnswered ==
    (server.handled.msg # "none" /\ server.handled.sink_ok) => AnsweredOnce

\* C28 without Import: the other messages are answered once
C28_AnsweredUnlessImport ==
    (server.handled.msg \notin {"none", "Import"} /\ server.handled.sink_ok
        /\ server.handled.then # "stopped")
        => AnsweredOnce

\* C28 witness (without Import): a CallExported whose handling fails is
\* answered with Error
C28_Witness ==
    /\ server.handled.msg = "CallExported" /\ server.handled.fails
    /\ server.handled.responses = << "Error" >>

----------------------------------------------------------------------------
(* Iterating a loop.                                                       *)

\* the label the branch of the last call aimed at
BrTarget == BrBase[NthLabelPos(BrBase, last.inst.relative_depth)]

\* the last call executed a taken br / br_if whose target is a Loop label
DidBrToLoop == DidBr /\ BrTarget.lk = "Loop"

\* what a branch to a Loop label leaves, and what the step after it does
IteratesLoop ==
    DidBrToLoop =>
        LET n == last.inst.relative_depth
            lp == NthLabelPos(BrBase, n)
            a == BrBase[lp].arity
            o == NthEnclosing(LastInsts, last.pc.inst, n)
        IN /\ ~IsTrap(result)
           /\ InstAt(LastInsts, o).op = "Loop"
           /\ a = BlockParams(InstAt(LastInsts, o).ty)
           /\ NumLabels(stack) = NumLabels(BrBase) - (n + 1)
           /\ stack = SubSeq(BrBase, 1, lp - 1) \o TopN(BrBase, a)
           /\ pc = [last.pc EXCEPT !.inst = o]
           /\ last'.raw # "None" =>
                 /\ last'.inst.op = "Loop"
                 /\ pc' = [last.pc EXCEPT !.inst = o + 1]
                 /\ NumLabels(stack') = NumLabels(BrBase) - n
                 /\ stack' = SubSeq(BrBase, 1, lp) \o TopN(BrBase, a)

\* C31: a taken br to a Loop label keeps the loop's param-arity operands,
\* removes the labels up to and including the Loop label and continues at the
\* `loop` instruction itself; the step that follows executes that `loop` and
\* pushes the label again, so that at the first instruction of the body the
\* stack up to and including the Loop label is what it was on the iteration
\* before: the number of labels does not grow by iterating.
C31_LoopKeepsLabelCount == [][IteratesLoop]_vars

\* C31 witness: br_if 0 iterating a loop of type (i32) -> (i32), its
\* parameter carried over to the next iteration
C31_Witness ==
    /\ DidBrToLoop /\ last.pc.func = 7 /\ last.inst = BrIf(0)
    /\ pc.inst = 5 /\ stack[Len(stack)].kind = "Value"
    /\ NumLabels(stack) = NumLabels(BrBase) - 1

\* C31 further case: br_if 1 from a block inside the loop, two labels and two
\* operands removed
C31_WitnessNested ==
    /\ DidBrToLoop /\ last.pc.func = 51 /\ last.inst = BrIf(1)
    /\ pc.inst = 0 /\ Len(stack) = Len(BrBase) - 4

----------------------------------------------------------------------------
(* Copies between overlapping regions.                                     *)

\* the last step executed a memory.copy / table.copy that did not trap
DidCopy(op) == DidBulk /\ last.inst.op = op /\ ~IsTrap(last.raw)

\* after is before with the region (src, n) of before written at dst
CopiedFrom(before, after, dst, src, n) ==
    /\ Len(after) = Len(before)
    /\ \A i \in 1 .. Len(after) :
          after[i] = IF dst < i /\ i <= dst + n THEN before[src + (i - dst)]
                     ELSE before[i]

\* the source and the destination region of the last copy share an element
CopyOverlaps == BulkLen > 0 /\ BulkSrc < BulkDst + BulkLen /\ BulkDst < BulkSrc + BulkLen

\* C32: a memory.copy or table.copy that completes leaves the destination
\* region equal to the source region as it was before the instruction, and
\* everything outside the destination region as it was, whether or not the
\* regions overlap and whichever of them starts first.
C32_CopyOfSourceBefore ==
    /\ DidCopy("MemoryCopy") =>
          /\ CopiedFrom(last.mems[1], store.mems[1], BulkDst, BulkSrc, BulkLen)
          /\ store.tables = last.tables
    /\ DidCopy("TableCopy") =>
          /\ CopiedFrom(last.tables[1], store.tables[1], BulkDst, BulkSrc, BulkLen)
          /\ store.mems = last.mems

\* C32 witness: memory.copy of two bytes to the address one above the source
C32_Witness ==
    /\ DidCopy("MemoryCopy") /\ CopyOverlaps /\ BulkLen = 2 /\ BulkDst = BulkSrc + 1
    /\ store.mems # last.mems

\* C32 further cases: memory.copy downwards, table.copy upwards and downwards
C32_WitnessDown ==
    /\ DidCopy("MemoryCopy") /\ CopyOverlaps /\ BulkLen = 2 /\ BulkDst = BulkSrc - 1
    /\ store.mems # last.mems

C32_WitnessTable ==
    /\ DidCopy("TableCopy") /\ CopyOverlaps /\ BulkLen = 2 /\ BulkDst = BulkSrc + 1
    /\ store.tables # last.tables

C32_WitnessTableDown ==
    /\ DidCopy("TableCopy") /\ CopyOverlaps /\ BulkLen = 2 /\ BulkDst = BulkSrc - 1
    /\ store.tables # last.tables

----------------------------------------------------------------------------
(* The signal execute_step returns.                                        *)

\* invoke_func or after_store was called by the last step and answered Breakpoint
CalledHookBreakpoint ==
    \/ last.entered # << >> /\ last.entered[1].signal = "Breakpoint"
    \/ last.stored # << >> /\ last.raw = "Breakpoint"

\* C33: a step of an executor with an activation that returns a signal has
\* executed its instruction, and the signal is End when the instruction
\* popped the initial frame, whatever the pre-hook returned; otherwise
\* Breakpoint when the pre-hook, invoke_func or after_store returned
\* Breakpoint; otherwise Next.  Only invoke_func and after_store make an
\* instruction's own signal a Breakpoint.
C33_SignalOfStep ==
    (WasLive /\ result \in Signals) =>
        /\ Executed
        /\ << pc, stack >> # << last.pc, last.stack >>
        /\ last.raw = "Breakpoint" => CalledHookBreakpoint
        /\ result = IF IsOverTopLevel(stack) THEN "End"
                    ELSE IF last.hook = "Breakpoint" \/ CalledHookBreakpoint
                    THEN "Breakpoint"
                    ELSE "Next"

\* C33 witness: the pre-hook answered Breakpoint and the instruction popped
\* the initial frame: End
C33_Witness ==
    /\ WasLive /\ last.hook = "Breakpoint" /\ IsOverTopLevel(stack) /\ result = "End"

\* C33 further cases: Breakpoint from invoke_func alone, from after_store
\* alone, from the pre-hook alone, and Next
C33_WitnessInvokeFunc ==
    /\ WasLive /\ last.hook = "Next" /\ result = "Breakpoint"
    /\ last.entered # << >> /\ last.entered[1].signal = "Breakpoint"

C33_WitnessAfterStore ==
    /\ WasLive /\ last.hook = "Next" /\ result = "Breakpoint" /\ last.stored # << >>

C33_WitnessPreHook ==
    /\ WasLive /\ last.hook = "Breakpoint" /\ result = "Breakpoint"
    /\ last.raw = "Next" /\ last.entered = << >> /\ last.stored = << >>

C33_WitnessBothHooks ==
    /\ WasLive /\ last.hook = "Breakpoint" /\ result = "Breakpoint"
    /\ last.entered # << >> /\ last.entered[1].signal = "Next"

C33_WitnessNext ==
    /\ WasLive /\ last.hook = "Next" /\ result = "Next" /\ last.entered # << >>

----------------------------------------------------------------------------
(* The program counter and the current frame.                              *)

\* the executor is between two instructions of a run that has not ended
BeforeEnd == result \notin {"End"} \cup Traps

\* C34: between two instructions of a run that has not returned End, an
\* activation is on the stack, the function of the pc is the function of the
\* topmost activation, and the module of that function is both the pc's and
\* the topmost activation's module: what execute_step resolves through the
\* pc's function and what it resolves through the current frame belong to
\* the same module.
C34_PcInCurrentFrame ==
    BeforeEnd =>
        /\ ~IsOverTopLevel(stack)
        /\ CurrentFrame(stack).exec_addr = pc.func
        /\ CurrentFrame(stack).module = FuncGlobal(pc.func).module
        /\ pc.module = FuncGlobal(pc.func).module

\* C34 witness: a function of module 1 entered by a call from module 0
C34_Witness ==
    /\ BeforeEnd /\ Did({"Call"}) /\ NumFrames(stack) = 2
    /\ FuncGlobal(last.pc.func).module = 0 /\ CurrentFrame(stack).module = 1

\* C34 further cases: three activations of alternating modules; the return
\* from module 0 to module 1 and from module 1 to module 0; call_indirect
C34_WitnessDeep ==
    /\ BeforeEnd /\ Did({"Call"}) /\ NumFrames(stack) = 3
    /\ FuncGlobal(last.pc.func).module = 1 /\ CurrentFrame(stack).module = 0

C34_WitnessReturn ==
    /\ BeforeEnd /\ NumFrames(last.stack) = 3 /\ NumFrames(stack) = 2
    /\ FuncGlobal(last.pc.func).module = 0 /\ CurrentFrame(stack).module = 1

C34_WitnessReturnOuter ==
    /\ BeforeEnd /\ NumFrames(last.stack) = 2 /\ NumFrames(stack) = 1
    /\ FuncGlobal(last.pc.func).module = 1 /\ CurrentFrame(stack).module = 0

C34_WitnessIndirect ==
    BeforeEnd /\ Did({"CallIndirect"}) /\ NumFrames(stack) = 2

----------------------------------------------------------------------------
(* A step that fails before its instruction is dispatched.                 *)

\* the last call of execute_step found no instruction at the pc
NoInstructionLeft == last.pc.inst >= Len(LastInsts)

\* the last change of the executor was a call of execute_step (before it,
\* the executor is as constructed; a pop_result call is recorded in returned)
StepFetched == last.before # "None" /\ ~returned.called

\* the last call of execute_step left the executor and the store as they were
StepChangedNothing ==
    /\ pc = last.pc
    /\ stack = last.stack
    /\ store.mems = last.mems
    /\ store.tables = last.tables
    /\ last.host = << >> /\ last.stored = << >> /\ last.entered = << >>

\* C35: a call of execute_step with the pc past the last instruction returns
\* the NoMoreInstruction trap without asking the interceptor, and a call
\* whose pre-hook returns a trap returns that trap; in both cases no
\* instruction is dispatched and the pc, the stack and the store are as
\* before the call.
C35_EarlyFailureChangesNothing ==
    /\ (StepFetched /\ NoInstructionLeft) => result = "NoMoreInstruction"
    /\ result = "NoMoreInstruction" =>
          /\ NoInstructionLeft
          /\ last.hook = "None"
          /\ ~Executed
          /\ StepChangedNothing
    /\ last.hook = "Trap" =>
          /\ result = "Interceptor"
          /\ ~Executed
          /\ StepChangedNothing

\* C35 witness: the pre-hook trapped on a call instruction with its argument
\* on the stack
C35_Witness ==
    /\ last.hook = "Trap" /\ last.inst.op = "Call" /\ result = "Interceptor"
    /\ NumFrames(stack) = 1 /\ last.stack[Len(last.stack)].kind = "Value"

\* C35 further case: no instruction at the pc
C35_WitnessNoMoreInstruction == result = "NoMoreInstruction" /\ NoInstructionLeft

----------------------------------------------------------------------------
(* assert_return.                                                          *)

\* the last directive was an assert_return that run_buffer accepted
Accepted == wast.last.kind = "assert_return" /\ wast.last.error = "None"

\* the value returned at position i is the value expected there
MatchesAt(i) ==
    /\ wast.last.exec.values[i].ty = wast.last.results[i].ty
    /\ wast.last.exec.values[i].val = wast.last.results[i].val

\* C36: an assert_return directive is accepted only if the invocation
\* returned exactly as many values as the directive expects and every
\* returned value matches the expected value at the same position.
C36_AcceptsExactResults ==
    Accepted =>
        /\ wast.last.exec.kind = "values"
        /\ Len(wast.last.exec.values) = Len(wast.last.results)
        /\ \A i \in 1 .. Len(wast.last.results) : MatchesAt(i)

\* C36, what holds: an accepted assert_return returned values that match the
\* expected values on the positions both sequences have
C36_AcceptsMatchingPrefix ==
    Accepted =>
        /\ wast.last.exec.kind = "values"
        /\ \A i \in 1 .. Len(wast.last.results) :
              i <= Len(wast.last.exec.values) => MatchesAt(i)

\* C36: an assert_return accepted with two values returned and two expected
C36_Witness ==
    Accepted /\ Len(wast.last.exec.values) = 2 /\ Len(wast.last.results) = 2

\* C36: an assert_return refused for its second value
C36_WitnessRefused ==
    /\ wast.last.kind = "assert_return" /\ wast.last.error = "expected"
    /\ Len(wast.last.exec.values) = 2 /\ Len(wast.last.results) = 2 /\ MatchesAt(1)

----------------------------------------------------------------------------
(* The end of a connection.                                                *)

\* the stream of connection c has ended without error
StreamEnded(c) == server.conns[c].connection_finished

\* establish_connection of connection c has returned, the lock released
Released(c) == server.conns[c].call = "returned" /\ server.lock # c

\* C37: when the stream of a connection ends without error,
\* establish_connection eventually returns and releases the lock, whatever
\* the debugger thread is doing when the stream ends.
C37_StreamEndReleasesLock == \A c \in Conns : StreamEnded(c) ~> Released(c)

\* C37, what holds: the lock is released unless the debugger thread is in
\* the handler of a CallExported that stopped at a breakpoint
C37_ReleasedUnlessStopped ==
    \A c \in Conns :
        StreamEnded(c) ~> (Released(c) \/ server.conns[c].thread = "stopped")

\* C37: the stream has ended while the handler was stopped at a breakpoint
C37_WitnessStopped ==
    \E c \in Conns :
        /\ StreamEnded(c) /\ server.conns[c].call = "joining"
        /\ server.conns[c].thread = "stopped"

\* C37: the lock released after the stream ended with the thread in its REPL
C37_WitnessReleased ==
    \E c \in Conns : StreamEnded(c) /\ Released(c) /\ server.conns[c].thread = "ended"

\* ---- C38: one debugger thread at a time ----

\* the debugger thread of connection c is running
Alive(c) == server.conns[c].thread \in {"repl", "serving", "stopped"}

\* C38: at most one debugger thread is alive at any time: the lock is not
\* released while the thread of its connection is running, whether the
\* stream ended normally or reading it returned an error.
C38_OneThreadAlive ==
    /\ \A c \in Conns : Alive(c) => server.lock = c
    /\ \A c, d \in Conns : (Alive(c) /\ Alive(d)) => c = d

\* C38, what holds: a thread runs without the lock only after the reader of
\* its connection returned on a read error
C38_AliveAfterReadErrorOnly ==
    \A c \in Conns :
        (Alive(c) /\ server.lock # c)
            => server.conns[c].call = "returned" /\ ~StreamEnded(c)

\* C38: the lock released on the normal end of the stream, the thread over
C38_WitnessNormalEnd ==
    \E c \in Conns : StreamEnded(c) /\ Released(c) /\ ~Alive(c)

\* C38: two debugger threads alive, both in their receive loops
C38_WitnessTwoThreads ==
    /\ server.conns[1].thread = "serving" /\ server.conns[1].call = "returned"
    /\ server.conns[2].thread = "serving" /\ server.conns[2].call = "reading"

----------------------------------------------------------------------------
(* A call stopped at a breakpoint, and Init.                               *)

\* the response sent for the request handled last, if any
Answer == proxy.handled.responses[1]

\* the number of Exit among the results the handler's loop has matched
ExitsSeen ==
    Cardinality({i \in DOMAIN proxy.handled.results : proxy.handled.results[i] = "Exit"})

\* C39: a CallExported whose execution stops at a breakpoint is not answered
\* while the process is stopped; every Exit the handler's loop gets is
\* followed by a dispatch of `process continue`; and the only responses are
\* CallResult with the values of the finished call (RunResult::Finish, or
\* CommandResult::ProcessFinish after a stop) and Error.
C39_StoppedCallAnswer ==
    /\ proxy.process = "stopped" =>
          /\ proxy.handled.req = "CallExported" /\ proxy.handled.stopped
          /\ proxy.handled.responses = << >>
    /\ proxy.handled.stopped => proxy.handled.continued = ExitsSeen
    /\ (proxy.handled.req = "CallExported" /\ proxy.handled.responses # << >>) =>
          /\ Len(proxy.handled.responses) = 1
          /\ Answer.kind \in {"CallResult", "Error"}
          /\ Answer.kind = "CallResult" =>
                /\ proxy.handled.finish =
                      (IF proxy.handled.stopped THEN "ProcessFinish" ELSE "Finish")
                /\ Len(Answer.values) = Len(proxy.handled.values)
                /\ \A i \in DOMAIN Answer.values :
                      /\ Answer.values[i].tag = proxy.handled.values[i].ty
                      /\ Answer.values[i].value = proxy.handled.values[i].val
          /\ Answer.kind = "Error" => proxy.handled.finish = "none"

\* C39 witness: a stopped call answered with CallResult and a value after
\* Exit, `process continue` returning Exit, and `process continue`
\* returning ProcessFinish
C39_Witness ==
    /\ proxy.handled.stopped /\ proxy.process = "idle"
    /\ proxy.handled.results = << "Exit", "Exit", "ProcessFinish" >>
    /\ proxy.handled.continued = 2
    /\ proxy.handled.responses # << >> /\ Answer.kind = "CallResult"
    /\ Len(Answer.values) = 1

\* C39 further cases: still stopped after Exit and a `process continue`
\* without a result; a stopped call answered with Error
C39_WitnessStillStopped ==
    /\ proxy.process = "stopped" /\ proxy.handled.results = << "Exit", "None" >>
    /\ proxy.handled.continued = 1

C39_WitnessError ==
    /\ proxy.handled.stopped /\ proxy.handled.responses # << >>
    /\ Answer.kind = "Error" /\ proxy.handled.results = << "Exit", "Err" >>

\* ---- C40: Init resets the store ----

\* the request handled last is an Init
HandledInit == proxy.handled.req = "Init"

\* C40: an Init request is answered with Init only when loading succeeded,
\* the store then holding the new module alone; when loading fails it is
\* answered with Error and the store holds no module an earlier Init
\* request loaded.
C40_InitResetsStore ==
    HandledInit =>
        /\ Len(proxy.handled.responses) = 1
        /\ Answer.kind = "Init" <=> ~proxy.handled.fails
        /\ ~proxy.handled.fails => proxy.store = << proxy.requests >>
        /\ proxy.handled.fails =>
              /\ Answer.kind = "Error"
              /\ \A i \in DOMAIN proxy.store : proxy.store[i] >= proxy.requests

\* C40 witness: an Init that fails after an earlier Init had loaded a module
C40_Witness ==
    /\ HandledInit /\ proxy.handled.fails
    /\ proxy.handled.loaded # << >> /\ proxy.store = << >>

\* C40 further case: an Init that replaces the module of an earlier Init
C40_WitnessReplaced ==
    /\ HandledInit /\ ~proxy.handled.fails
    /\ proxy.handled.loaded # << >> /\ proxy.store = << proxy.requests >>

====
